---- MODULE Spec2Model ----
(***************************************************************************)
(* Resilience core of chiliz-mcp: the retrying call executor and the       *)
(* circuit breaker of ErrorHandler (src/unnamed/part_006, the module the   *)
(* tests import as src/errors/error-handler) and the fixed-window          *)
(* RateLimiter (src/src/utils/rateLimiter.ts).                             *)
(*                                                                         *)
(* Each component has its own variables, its own initial condition and     *)
(* its own next-state relation; a component's specification leaves the     *)
(* variables of the other components unchanged.                            *)
(***************************************************************************)
EXTENDS Integers, Sequences, FiniteSets, TLC

VARIABLES
  \* ---- ErrorHandler.withRetry (one call at a time) ----
  defaultRetryConfig, \* the static field ErrorHandler.DEFAULT_RETRY_CONFIG
  retryConfig,   \* { ...DEFAULT_RETRY_CONFIG, ...config } of the current call
  attempt,       \* the local counter `attempt`
  lastError,     \* the local `lastError`
  rtPc,          \* where the call stands: idle, operation, sleeping, returned, thrown
  rtThrown,      \* what the call threw to its caller (NoError while it has not)
  rtReturned,    \* what the call returned to its caller ("" while it has not)
  delay,         \* the delay handed to the last sleep()
  attempts,      \* how often the operation was invoked by the current call
  history,       \* what the operation threw, in order, during the current call
  sleeps,        \* how often the current call slept
  \* ---- ErrorHandler.createCircuitBreaker (one guard) ----
  maxFailures,   \* the guard's maxFailures
  resetTimeoutMs,\* the guard's resetTimeoutMs
  failures,      \* closure variable `failures`
  lastFailureTime,\* closure variable `lastFailureTime`
  isOpen,        \* closure variable `isOpen`
  cbInFlight,    \* guarded calls whose operation is awaited
  cbViaReset,    \* the awaited operation was started by the reset after a cooldown
  cbLast,        \* how the last finished guarded call ended
  cbPrev,        \* how the guarded call finished before it ended
  cbThrown,      \* the error the last failed guarded call threw
  cbRun,         \* operations that failed since the last one that succeeded
  cbRunSinceReset,\* the same, also restarted by the reset after a cooldown
  \* ---- RateLimiter ----
  configs,       \* this.configs : name -> RateLimitConfig
  limits,        \* this.limits  : name -> RateLimitEntry
  waiter,        \* the callers of checkLimit / waitForLimit and where each stands
  admitted,      \* true results of checkLimit per name since its window opened
  \* ---- CacheManager ----
  caches,        \* this.caches : cache name -> the data of its NodeCache
  cacheOut,      \* how the last call on the cache manager ended
  \* ---- WebSocketProvider ----
  provider,      \* this.provider: 0 for null, else the connection it refers to
  blockListeners,     \* this.blockListeners
  logListeners,       \* this.logListeners : filterId -> set of listeners
  pendingTxListeners, \* this.pendingTxListeners
  reconnectAttempts,  \* this.reconnectAttempts
  wsTimers,      \* reconnect timers set by handleDisconnect and not yet fired
  wsDelays,      \* per attempt number, the delay in ms of the timer last set for it
  conns,         \* the physical connections that exist, with their handlers
  wsStopped,     \* disconnect() has returned and no caller has connected since
  wsDelivered,   \* the upstream event just fanned out: who got it how often
  wsFailedRun,   \* connection attempts in a row that failed since a caller connected
  wsReconnected, \* this.provider was made by a reconnect timer
  \* ---- PriceStream ----
  wsProvider,    \* this.wsProvider: 0 for null, else the connection it refers to
  isStreaming,   \* this.isStreaming
  psReconnectAttempts, \* this.reconnectAttempts of the price stream
  priceUpdateInterval, \* this.priceUpdateInterval holds a timer
  psPolls,       \* the price-polling interval timers that exist
  psSleeping,    \* handleReconnect() calls waiting out their delay
  psStarting,    \* start() calls waiting on their connect()
  psConns,       \* the physical connections of the price stream
  psOut,         \* how the last start() or stop() call ended
  psDelays,      \* per attempt number, the delay in ms handleReconnect last waited
  \* ---- WebSocketProvider: the events of the subscriptions ----
  upstream,      \* upstream events that have arrived, numbered as they arrive
  lookups,       \* getBlock / getTransaction calls that a handler awaits
  deliveries,    \* the fan-outs made, in order: event, number, listeners called
  \* ---- ErrorHandler.withParallel (one call at a time) ----
  parResults,    \* the promises of operations.map(op => op()), in input order
  parFailFast,   \* config.failFast of the current call
  parPc,         \* where the call stands: idle, awaiting, returned, thrown
  parValues,     \* the array the call returned
  parThrown,     \* what the call threw to its caller (NoError while it has not)
  \* ---- RateLimiter: introspection ----
  introspected,  \* what the last getRemainingRequests / getResetTime call returned
  \* ---- the clients' cached calls (getPrice, getBalance) ----
  call           \* per caller, where its getPrice / getBalance call stands

retryVars == <<defaultRetryConfig, retryConfig, attempt, lastError, rtPc, rtThrown,
               rtReturned, delay, attempts, history, sleeps>>
breakerVars == <<maxFailures, resetTimeoutMs, failures, lastFailureTime, isOpen,
                 cbInFlight, cbViaReset, cbLast, cbPrev, cbThrown, cbRun,
                 cbRunSinceReset>>
limiterVars == <<configs, limits, waiter, admitted>>
cacheVars == <<caches, cacheOut>>
wsVars == <<provider, blockListeners, logListeners, pendingTxListeners,
            reconnectAttempts, wsTimers, conns, wsStopped, wsDelivered, wsFailedRun,
            wsReconnected, wsDelays>>
psVars == <<wsProvider, isStreaming, psReconnectAttempts, priceUpdateInterval,
            psPolls, psSleeping, psStarting, psConns, psOut, psDelays>>
orderVars == <<upstream, lookups, deliveries>>
parVars == <<parResults, parFailFast, parPc, parValues, parThrown>>
introVars == <<introspected>>
callVars == <<call>>
vars == <<retryVars, breakerVars, limiterVars, cacheVars, wsVars, psVars, orderVars,
          parVars, introVars, callVars>>

(***************************************************************************)
(* Bounds of the model.                                                    *)
(***************************************************************************)
MaxRetriesBound == 2       \* largest maxRetries a caller overrides with
JitterSteps == 2           \* Math.random() takes the values r / JitterSteps
MaxInFlight == 2           \* guarded calls awaiting their operation at a time
MaxFailuresBound == 3      \* largest maxFailures of a guard
MaxResetTimeout == 3       \* largest resetTimeoutMs of a guard
MaxRequestsBound == 2      \* largest maxRequests of a bucket policy
MaxWindowMs == 2           \* largest windowMs of a bucket policy
MaxTtl == 2                \* largest ttl a caller passes to a cache set
MaxConns == 2              \* physical connections that exist at a time
MaxRegs == 2               \* handlers counted per event on one connection
MaxTimers == 2             \* reconnect timers pending at a time
maxReconnectAttempts == 2  \* WebSocketProvider.maxReconnectAttempts (5 in the source)

(***************************************************************************)
(* Time.  Every timestamp is measured from the present instant, so that    *)
(* Date.now() is 0 in every state and the passing of one time unit shifts  *)
(* every stored timestamp down by one.  A timestamp that lies so far in    *)
(* the past that the code can no longer tell it from an older one stays    *)
(* where it is.                                                            *)
(***************************************************************************)
DateNow == 0

Min(a, b) == IF a <= b THEN a ELSE b
Max(a, b) == IF a >= b THEN a ELSE b

RECURSIVE Pow(_, _)
Pow(b, e) == IF e <= 0 THEN 1 ELSE b * Pow(b, e - 1)

(***************************************************************************)
(* Errors (src/src/errors/chiliz-error.ts).  A thrown value is a record:   *)
(* cls is its class ("Error" for a native error, "string" for a thrown     *)
(* non-error value), message a sequence of words, retryAfter <<>> when     *)
(* undefined and <<h>> otherwise, context the set of its context keys.     *)
(***************************************************************************)
ChilizMCPError(message, code, statusCode, isRetryableFlag, context) ==
  [cls |-> "ChilizMCPError", message |-> message, code |-> code,
   statusCode |-> statusCode, isRetryable |-> isRetryableFlag,
   retryAfter |-> <<>>, context |-> context]

NetworkError(message) ==
  [ChilizMCPError(message, "NETWORK_ERROR", 503, TRUE, {}) EXCEPT !.cls = "NetworkError"]

WebSocketError(message) ==
  [ChilizMCPError(message, "WEBSOCKET_ERROR", 503, TRUE, {}) EXCEPT !.cls = "WebSocketError"]

RateLimitError(message, retryAfter) ==
  [ChilizMCPError(message, "RATE_LIMIT_ERROR", 429, TRUE, {})
     EXCEPT !.cls = "RateLimitError", !.retryAfter = retryAfter]

NativeError(message) ==
  [cls |-> "Error", message |-> message, code |-> "", statusCode |-> 0,
   isRetryable |-> FALSE, retryAfter |-> <<>>, context |-> {}]

ThrownString(message) == [NativeError(message) EXCEPT !.cls = "string"]

\* A thrown plain object that carries a message property, { message }.
ThrownObject(message) == [NativeError(message) EXCEPT !.cls = "object"]

NoError == [NativeError(<<>>) EXCEPT !.cls = "none"]

ClassifiedClasses == {"ChilizMCPError", "NetworkError", "WebSocketError", "RateLimitError"}

InstanceOfChilizMCPError(e) == e.cls \in ClassifiedClasses
InstanceOfError(e) == e.cls \in ClassifiedClasses \cup {"Error"}

\* The values the operations resolve with.
Results == {"result1", "result2"}

\* The values the operation of a call may throw.
RawErrors ==
  { NetworkError(<<"Network", "error">>),
    ChilizMCPError(<<"Non-retryable">>, "TEST_ERROR", 400, FALSE, {}),
    ChilizMCPError(<<"RPC", "request", "failed">>, "RPC_ERROR", 502, FALSE, {}),
    WebSocketError(<<"socket", "closed">>),
    RateLimitError(<<"Rate", "limited">>, <<1>>),
    RateLimitError(<<"Rate", "limited">>, <<>>),
    RateLimitError(<<"Rate", "limited">>, <<0>>),
    ThrownObject(<<"RPC", "request", "failed">>),
    NativeError(<<"Operation", "failed">>),
    NativeError(<<"Network", "timeout">>),
    ThrownString(<<"String", "error">>) }

\* String.prototype.toLowerCase on the words the messages are made of.
ToLowerCase(word) ==
  CASE word = "Network" -> "network"
    [] word = "RPC" -> "rpc"
    [] word = "Rate" -> "rate"
    [] word = "Operation" -> "operation"
    [] word = "String" -> "string"
    [] word = "Non-retryable" -> "non-retryable"
    [] OTHER -> word

\* message.toLowerCase().includes(keyword), word by word.
MessageIncludes(message, keyword) ==
  \E i \in 1..Len(message) : ToLowerCase(message[i]) = keyword

(***************************************************************************)
(* ErrorHandler: configuration, classification and delay.                  *)
(***************************************************************************)
DEFAULT_RETRY_CONFIG ==
  [maxRetries |-> 3, baseDelayMs |-> 1000, maxDelayMs |-> 30000,
   backoffMultiplier |-> 2,
   retryableErrors |-> {"NETWORK_ERROR", "RPC_ERROR", "TIMEOUT_ERROR",
                        "RATE_LIMIT_ERROR", "API_ERROR"}]

\* { ...this.DEFAULT_RETRY_CONFIG, ...config }
MergeConfig(config) ==
  [k \in DOMAIN defaultRetryConfig |->
     IF k \in DOMAIN config THEN config[k] ELSE defaultRetryConfig[k]]

\* A plausible slip: the overrides are assigned into the static default.
DefaultConfigAssigned(config) == MergeConfig(config)

\* The spread makes a new object: the static default is what it was.
DefaultConfigAfter(config) == defaultRetryConfig

\* The Partial<RetryConfig> values callers pass.
ConfigOverrides ==
  { [k \in D |-> CASE k = "maxRetries" -> n
                   [] k = "baseDelayMs" -> 10
                   [] k = "maxDelayMs" -> 15
                   [] k = "retryableErrors" -> {"NETWORK_ERROR", "WEBSOCKET_ERROR"}] :
      n \in 0..MaxRetriesBound,
      D \in SUBSET {"maxRetries", "baseDelayMs", "maxDelayMs", "retryableErrors"} }

\* The ErrorContext of the calls.
Context == [operation |-> "test", timestamp |-> 0, metadata |-> {}]

\* String(error) of a value that is not an Error: a string is itself, null
\* is "null", a plain object is "[object Object]".
String(error) ==
  CASE error.cls = "string" -> error.message
    [] error.cls = "none" -> <<"null">>
    [] OTHER -> <<"[object", "Object]">>

\* A plausible slip: only Error instances are wrapped, any other thrown value
\* is handed on as it is.
wrapErrorErrorsOnly(error, context) ==
  IF InstanceOfChilizMCPError(error) \/ ~InstanceOfError(error) THEN error
  ELSE ChilizMCPError(error.message, "UNKNOWN_ERROR", 500, FALSE,
                      {"operation", "timestamp", "originalError"} \cup context.metadata)

wrapError(error, context) ==
  IF InstanceOfChilizMCPError(error) THEN error
  ELSE IF InstanceOfError(error)
    THEN ChilizMCPError(error.message, "UNKNOWN_ERROR", 500, FALSE,
                        {"operation", "timestamp", "originalError"} \cup context.metadata)
    ELSE ChilizMCPError(String(error), "UNKNOWN_ERROR", 500, FALSE,
                        {"operation", "timestamp"} \cup context.metadata)

\* A plausible slip: the retryable flag of a classified error is not consulted.
isRetryableErrorIgnoringFlag(error, config) ==
  IF InstanceOfChilizMCPError(error)
    THEN error.code \in config.retryableErrors
    ELSE InstanceOfError(error) /\ MessageIncludes(error.message, "network")

isRetryableError(error, config) ==
  IF InstanceOfChilizMCPError(error)
    THEN error.isRetryable /\ error.code \in config.retryableErrors
  ELSE IF InstanceOfError(error)
    THEN \/ MessageIncludes(error.message, "network")
         \/ MessageIncludes(error.message, "timeout")
         \/ MessageIncludes(error.message, "econnrefused")
         \/ MessageIncludes(error.message, "enotfound")
         \/ MessageIncludes(error.message, "etimedout")
    ELSE FALSE

\* A plausible slip: the delay is not capped at maxDelayMs.
calculateDelayUncapped(att, config, error, r) ==
  IF error.cls = "RateLimitError" /\ error.retryAfter # <<>> /\ error.retryAfter[1] # 0
    THEN error.retryAfter[1] * 1000
    ELSE LET exponentialDelay == config.baseDelayMs * Pow(config.backoffMultiplier, att - 1)
         IN  (exponentialDelay * 10 * JitterSteps + r * exponentialDelay)
               \div (10 * JitterSteps)

\* calculateDelay with Math.random() = r / JitterSteps:
\* floor(min(exp + (r / JitterSteps) * 0.1 * exp, maxDelayMs)).
calculateDelay(att, config, error, r) ==
  IF error.cls = "RateLimitError" /\ error.retryAfter # <<>> /\ error.retryAfter[1] # 0
    THEN error.retryAfter[1] * 1000
    ELSE LET exponentialDelay == config.baseDelayMs * Pow(config.backoffMultiplier, att - 1)
         IN  Min((exponentialDelay * 10 * JitterSteps + r * exponentialDelay)
                   \div (10 * JitterSteps),
                 config.maxDelayMs)

(***************************************************************************)
(* ErrorHandler.withRetry.                                                 *)
(***************************************************************************)
\* A step of withRetry touches neither a circuit breaker nor the rate limiter.
RetryFrame == UNCHANGED <<breakerVars, limiterVars, cacheVars, wsVars, psVars,
  orderVars, parVars, introVars, callVars>>

RetryInit ==
  /\ defaultRetryConfig = DEFAULT_RETRY_CONFIG
  /\ retryConfig = DEFAULT_RETRY_CONFIG
  /\ attempt = 0
  /\ lastError = NoError
  /\ rtPc = "idle"
  /\ rtThrown = NoError
  /\ rtReturned = ""
  /\ delay = 0
  /\ attempts = 0
  /\ history = <<>>
  /\ sleeps = 0

\* while (attempt <= retryConfig.maxRetries): enter the body and invoke the
\* operation, or fall out of the loop to the final throw.
LoopHead(att, config, err, invoked) ==
  IF att <= config.maxRetries
    THEN /\ rtPc' = "operation"
         /\ attempts' = invoked + 1
         /\ rtThrown' = NoError
    ELSE /\ rtPc' = "thrown"
         /\ rtThrown' = wrapError(err, Context)
         /\ attempts' = invoked

\* A plausible slip: the last retry is never made.
GivesUpOneEarly(error, att, config) ==
  ~isRetryableError(error, config) \/ att >= config.maxRetries

\* `if (!isRetryable || attempt > retryConfig.maxRetries)`: the error propagates.
GivesUp(error, att, config) ==
  ~isRetryableError(error, config) \/ att > config.maxRetries

\* A caller calls withRetry(operation, context, config) and the first attempt
\* starts: what the call does to its locals.
RetryCall(config) ==
  /\ rtPc \in {"idle", "returned", "thrown"}
  /\ retryConfig' = MergeConfig(config)
  /\ lastError' = NoError
  /\ attempt' = 0
  /\ rtReturned' = ""
  /\ delay' = 0
  /\ history' = <<>>
  /\ sleeps' = 0
  /\ LoopHead(0, MergeConfig(config), NoError, 0)
  /\ defaultRetryConfig' = DefaultConfigAfter(config)

WithRetry(config) ==
  /\ RetryCall(config)
  /\ RetryFrame

\* `return await operation()` with the operation fulfilled: what it does to
\* the locals of withRetry.
RetryReturn(value) ==
  /\ rtPc = "operation"
  /\ rtPc' = "returned"
  /\ rtReturned' = value
  /\ UNCHANGED <<defaultRetryConfig, retryConfig, attempt, lastError, rtThrown, delay,
                 attempts, history, sleeps>>

OperationResolves(value) ==
  /\ RetryReturn(value)
  /\ RetryFrame

\* A plausible slip: the sleep is made before the test that gives up, so that
\* the last attempt is followed by a delay as well.
RetryCatchSleepingFirst(error, r) ==
  /\ rtPc = "operation"
  /\ lastError' = error
  /\ attempt' = attempt + 1
  /\ history' = Append(history, error)
  /\ delay' = calculateDelay(attempt + 1, retryConfig, error, r)
  /\ sleeps' = sleeps + 1
  /\ IF GivesUp(error, attempt + 1, retryConfig)
       THEN /\ rtPc' = "thrown"
            /\ rtThrown' = wrapError(error, Context)
       ELSE /\ rtPc' = "sleeping"
            /\ UNCHANGED rtThrown
  /\ UNCHANGED <<defaultRetryConfig, retryConfig, attempts, rtReturned>>

\* The catch block, the operation having rejected with `error`: what it does
\* to the locals of withRetry.
RetryCatch(error, r) ==
  /\ rtPc = "operation"
  /\ lastError' = error
  /\ attempt' = attempt + 1
  /\ history' = Append(history, error)
  /\ IF GivesUp(error, attempt + 1, retryConfig)
       THEN /\ rtPc' = "thrown"
            /\ rtThrown' = wrapError(error, Context)
            /\ UNCHANGED <<delay, sleeps>>
       ELSE /\ rtPc' = "sleeping"
            /\ delay' = calculateDelay(attempt + 1, retryConfig, error, r)
            /\ sleeps' = sleeps + 1
            /\ UNCHANGED rtThrown
  /\ UNCHANGED <<defaultRetryConfig, retryConfig, attempts, rtReturned>>

OperationRejects(error, r) ==
  /\ RetryCatch(error, r)
  /\ RetryFrame

\* sleep(delay) is over: back to the head of the loop.
RetryResume ==
  /\ rtPc = "sleeping"
  /\ LoopHead(attempt, retryConfig, lastError, attempts)
  /\ UNCHANGED <<defaultRetryConfig, retryConfig, attempt, lastError, delay, history,
                 sleeps, rtReturned>>

SleepElapses ==
  /\ RetryResume
  /\ RetryFrame

RetryNext ==
  \/ \E config \in ConfigOverrides : WithRetry(config)
  \/ \E value \in Results : OperationResolves(value)
  \/ \E error \in RawErrors, r \in 0..(JitterSteps - 1) : OperationRejects(error, r)
  \/ SleepElapses

(***************************************************************************)
(* ErrorHandler.createCircuitBreaker: one guard and its closure variables. *)
(* lastFailureTime starts at 0, the epoch, which lies further back than    *)
(* any resetTimeoutMs.                                                     *)
(***************************************************************************)
\* The state createCircuitBreaker(mf, rt) returns its guard in.
BreakerCreated(mf, rt) ==
  /\ maxFailures = mf
  /\ resetTimeoutMs = rt
  /\ failures = 0
  /\ lastFailureTime = DateNow - resetTimeoutMs
  /\ isOpen = FALSE
  /\ cbInFlight = 0
  /\ cbViaReset = FALSE
  /\ cbLast = "none"
  /\ cbPrev = "none"
  /\ cbThrown = NoError
  /\ cbRun = 0
  /\ cbRunSinceReset = 0

BreakerInit ==
  \E mf \in 1..MaxFailuresBound, rt \in 1..MaxResetTimeout : BreakerCreated(mf, rt)

\* createCircuitBreaker(): maxFailures = 5, resetTimeoutMs = 60000.
BreakerDefault == BreakerCreated(5, 60000)

\* A step of a guard touches neither withRetry's locals nor the rate limiter.
BreakerFrame == UNCHANGED <<retryVars, limiterVars, cacheVars, wsVars, psVars,
  orderVars, parVars, introVars, callVars>>

CircuitBreakerOpenError ==
  ChilizMCPError(<<"Circuit", "breaker", "is", "open">>, "CIRCUIT_BREAKER_OPEN", 503,
                 TRUE, {"resetIn"})

\* A plausible slip: the cooldown still runs at the instant it has elapsed.
CooldownRunningInclusive ==
  LET timeSinceLastFailure == DateNow - lastFailureTime
  IN  isOpen /\ timeSinceLastFailure <= resetTimeoutMs

\* `if (isOpen)` and `if (timeSinceLastFailure < resetTimeoutMs)`.
CooldownRunning ==
  LET timeSinceLastFailure == DateNow - lastFailureTime
  IN  isOpen /\ timeSinceLastFailure < resetTimeoutMs

\* A plausible slip: the reset after the cooldown closes the circuit and keeps
\* the failure count.
failuresOnEntryKept == failures

\* `isOpen = false; failures = 0` when the guard is entered open after the
\* cooldown; an entry into a closed guard leaves the count alone.
failuresOnEntry == IF isOpen THEN 0 ELSE failures

\* The guard is called.  An open circuit within its cooldown throws without
\* invoking the operation; otherwise the operation is invoked and awaited.
GuardCall ==
      IF CooldownRunning
        THEN /\ cbThrown' = CircuitBreakerOpenError
             /\ cbLast' = "blocked"
             /\ cbPrev' = cbLast
             /\ UNCHANGED <<maxFailures, resetTimeoutMs, failures, lastFailureTime,
                            isOpen, cbInFlight, cbViaReset, cbRun, cbRunSinceReset>>
        ELSE /\ isOpen' = FALSE
             /\ failures' = failuresOnEntry
             /\ cbRunSinceReset' = IF isOpen THEN 0 ELSE cbRunSinceReset
             /\ cbViaReset' = isOpen
             /\ cbInFlight' = cbInFlight + 1
             /\ UNCHANGED <<maxFailures, resetTimeoutMs, lastFailureTime, cbLast,
                            cbPrev, cbThrown, cbRun>>

\* Callers that await each guarded call before they make the next one.
SequentialCall ==
  /\ cbInFlight = 0
  /\ GuardCall
  /\ BreakerFrame

\* A plausible slip: a success leaves the failure count as it is.
GuardOperationResolvesKeepingCount ==
  /\ cbInFlight > 0
  /\ cbInFlight' = cbInFlight - 1
  /\ cbLast' = "succeeded"
  /\ cbPrev' = cbLast
  /\ cbRun' = 0
  /\ cbRunSinceReset' = 0
  /\ UNCHANGED <<maxFailures, resetTimeoutMs, failures, lastFailureTime, isOpen,
                 cbViaReset, cbThrown>>
  /\ BreakerFrame

\* The awaited operation fulfilled: `failures = 0; return result`.
GuardReturn ==
  /\ cbInFlight > 0
  /\ failures' = 0
  /\ cbInFlight' = cbInFlight - 1
  /\ cbLast' = "succeeded"
  /\ cbPrev' = cbLast
  /\ cbRun' = 0
  /\ cbRunSinceReset' = 0
  /\ UNCHANGED <<maxFailures, resetTimeoutMs, lastFailureTime, isOpen, cbViaReset,
                 cbThrown>>

GuardOperationResolves ==
  /\ GuardReturn
  /\ BreakerFrame

\* The awaited operation rejected with `error`: the catch block.
GuardCatch(error) ==
  /\ cbInFlight > 0
  /\ failures' = failures + 1
  /\ lastFailureTime' = DateNow
  /\ isOpen' = (isOpen \/ failures + 1 >= maxFailures)
  /\ cbThrown' = wrapError(error, Context)
  /\ cbInFlight' = cbInFlight - 1
  /\ cbLast' = "failed"
  /\ cbPrev' = cbLast
  /\ cbRun' = Min(cbRun + 1, maxFailures)
  /\ cbRunSinceReset' = Min(cbRunSinceReset + 1, maxFailures)
  /\ UNCHANGED <<maxFailures, resetTimeoutMs, cbViaReset>>

GuardOperationRejects(error) ==
  /\ GuardCatch(error)
  /\ BreakerFrame

\* One time unit passes.
BreakerTime ==
  /\ lastFailureTime > DateNow - resetTimeoutMs
  /\ lastFailureTime' = lastFailureTime - 1
  /\ UNCHANGED <<maxFailures, resetTimeoutMs, failures, isOpen, cbInFlight, cbViaReset,
                 cbLast, cbPrev, cbThrown, cbRun, cbRunSinceReset>>

BreakerTick ==
  /\ BreakerTime
  /\ BreakerFrame

\* Callers that do not wait for each other: a guarded call is made while
\* others are awaiting their operations.
ConcurrentCall ==
  /\ cbInFlight < MaxInFlight
  /\ GuardCall
  /\ BreakerFrame

ConcurrentNext ==
  \/ ConcurrentCall
  \/ GuardOperationResolves
  \/ \E error \in RawErrors : GuardOperationRejects(error)
  \/ BreakerTick

BreakerNext ==
  \/ SequentialCall
  \/ GuardOperationResolves
  \/ \E error \in RawErrors : GuardOperationRejects(error)
  \/ BreakerTick

(***************************************************************************)
(* RateLimiter (src/src/utils/rateLimiter.ts).  The limiter's time unit is *)
(* one second: windowMs and every timestamp of the limiter count seconds.  *)
(***************************************************************************)
Names == {"rpc", "coingecko"}
Callers == {"c1", "c2"}

\* RateLimitConfig: positive integers (RateLimitConfigSchema).
Policies == [maxRequests : 1..MaxRequestsBound, windowMs : 1..MaxWindowMs]

\* waitForLimit sleeps at most 1000 ms, one time unit, at a time.
PollCeiling == 1

\* getRemainingRequests of a name without a policy.
Infinity == 2147483647

\* A caller: pc is idle, answered (its checkLimit returned `result`), checked
\* (inside waitForLimit, suspended at the await with `result`), sleeping (inside
\* waitForLimit, until `wake`) or returned (its waitForLimit returned); slept
\* tells whether its waitForLimit has slept.
IdleCaller ==
  [pc |-> "idle", name |-> "rpc", result |-> FALSE, wake |-> 0, slept |-> FALSE]

\* A step of the limiter touches neither withRetry's locals nor a circuit breaker.
LimiterFrame == UNCHANGED <<retryVars, breakerVars, cacheVars, wsVars, psVars,
  orderVars, parVars, introVars, callVars>>

LimiterInit ==
  /\ configs = <<>>
  /\ limits = <<>>
  /\ waiter = [c \in Callers |-> IdleCaller]
  /\ admitted = [n \in Names |-> 0]

\* new Map(map).set(key, value)
MapSet(map, key, value) ==
  [k \in DOMAIN map \cup {key} |-> IF k = key THEN value ELSE map[k]]

\* A plausible slip: a window, once opened, never expires.
WindowExpiredNever(name) == name \notin DOMAIN limits

\* `!entry || now > entry.resetTime`
WindowExpired(name) == name \notin DOMAIN limits \/ DateNow > limits[name].resetTime

\* A plausible slip: the call that opens a window is not counted.
NewWindowUncounted(name) == [count |-> 0, resetTime |-> DateNow + configs[name].windowMs]

\* `{ count: 1, resetTime: now + config.windowMs }`
NewWindow(name) == [count |-> 1, resetTime |-> DateNow + configs[name].windowMs]

\* A plausible slip: one request more than maxRequests passes.
ExceededOffByOne(name) == limits[name].count > configs[name].maxRequests

\* `entry.count >= config.maxRequests`
Exceeded(name) == limits[name].count >= configs[name].maxRequests

\* A plausible slip: a name without a policy gets an entry all the same.
UnconfiguredLimitsCounted(name) == MapSet(limits, name, [count |-> 1, resetTime |-> DateNow])

\* `if (!config) return true`: this.limits is not touched.
UnconfiguredLimits(name) == limits

\* What checkLimit(name) returns in the current state.
checkLimitResult(name) ==
  IF name \notin DOMAIN configs THEN TRUE
  ELSE IF WindowExpired(name) THEN TRUE
  ELSE ~Exceeded(name)

\* What checkLimit(name) leaves in this.limits.
checkLimitLimits(name) ==
  IF name \notin DOMAIN configs THEN UnconfiguredLimits(name)
  ELSE IF WindowExpired(name) THEN MapSet(limits, name, NewWindow(name))
  ELSE IF Exceeded(name) THEN limits
  ELSE [limits EXCEPT ![name].count = @ + 1]

\* checkLimit(name): the body runs without suspending.  admitted counts the true
\* answers since the window of a configured name was opened.
checkLimit(name) ==
  /\ limits' = checkLimitLimits(name)
  /\ admitted' =
       [admitted EXCEPT ![name] =
          IF name \notin DOMAIN configs THEN @
          ELSE IF WindowExpired(name) THEN 1
          ELSE IF checkLimitResult(name) THEN Min(@ + 1, MaxRequestsBound + 1)
          ELSE @]

\* A plausible slip: the count of a window that is over still counts.
getRemainingRequestsStale(name) ==
  IF name \notin DOMAIN configs THEN Infinity
  ELSE IF name \notin DOMAIN limits THEN configs[name].maxRequests
  ELSE Max(0, configs[name].maxRequests - limits[name].count)

getRemainingRequests(name) ==
  IF name \notin DOMAIN configs THEN Infinity
  ELSE IF WindowExpired(name) THEN configs[name].maxRequests
  ELSE Max(0, configs[name].maxRequests - limits[name].count)

\* configure(name, config).  A name keeps the policy it was first given: every
\* client instance configures its bucket again with the same config object.
Configure(name, config) ==
  /\ name \in DOMAIN configs => configs[name] = config
  /\ configs' = MapSet(configs, name, config)
  /\ UNCHANGED <<limits, waiter, admitted>>
  /\ LimiterFrame

\* A caller calls checkLimit(name) itself and gets the answer.
CheckLimitCall(c, name) ==
  /\ waiter[c].pc \in {"idle", "answered", "returned"}
  /\ checkLimit(name)
  /\ waiter' = [waiter EXCEPT ![c] =
       [pc |-> "answered", name |-> name, result |-> checkLimitResult(name),
        wake |-> 0, slept |-> FALSE]]
  /\ UNCHANGED configs
  /\ LimiterFrame

\* A caller calls waitForLimit(name): the first checkLimit runs at once, and the
\* caller is suspended at the await.
WaitEnters(c, name) ==
  /\ waiter[c].pc \in {"idle", "answered", "returned"}
  /\ checkLimit(name)
  /\ waiter' = [waiter EXCEPT ![c] =
       [pc |-> "checked", name |-> name, result |-> checkLimitResult(name),
        wake |-> 0, slept |-> FALSE]]
  /\ UNCHANGED configs

WaitForLimit(c, name) ==
  /\ WaitEnters(c, name)
  /\ LimiterFrame

\* A refused waiter goes to sleep: `if (entry)` and `if (waitTime > 0)`.
Sleeps(name) == name \in DOMAIN limits /\ limits[name].resetTime - DateNow > 0

\* The await is over.  Admitted: waitForLimit returns.  Refused: sleep when the
\* entry's window has time left, otherwise check again at once.
WaitContinues(c) ==
  LET name == waiter[c].name
      waitTime == limits[name].resetTime - DateNow
  IN  /\ waiter[c].pc = "checked"
      /\ IF waiter[c].result
           THEN /\ waiter' = [waiter EXCEPT ![c].pc = "returned"]
                /\ UNCHANGED <<limits, admitted>>
           ELSE IF Sleeps(name)
             THEN /\ waiter' = [waiter EXCEPT ![c].pc = "sleeping",
                                              ![c].wake = DateNow + Min(waitTime, PollCeiling),
                                              ![c].slept = TRUE]
                  /\ UNCHANGED <<limits, admitted>>
             ELSE /\ checkLimit(name)
                  /\ waiter' = [waiter EXCEPT ![c].result = checkLimitResult(name)]
      /\ UNCHANGED configs

WaitResume(c) ==
  /\ WaitContinues(c)
  /\ LimiterFrame

\* A plausible slip: after its sleep the waiter counts itself in without asking.
WaitWakeUnchecked(c) ==
  /\ waiter[c].pc = "sleeping"
  /\ waiter[c].wake <= DateNow
  /\ limits' = [limits EXCEPT ![waiter[c].name].count = @ + 1]
  /\ admitted' = [admitted EXCEPT ![waiter[c].name] = Min(@ + 1, MaxRequestsBound + 1)]
  /\ waiter' = [waiter EXCEPT ![c].pc = "checked", ![c].result = TRUE, ![c].wake = DateNow]
  /\ UNCHANGED configs
  /\ LimiterFrame

\* The sleep's timer fired: the loop checks again.
WaitWakes(c) ==
  /\ waiter[c].pc = "sleeping"
  /\ waiter[c].wake <= DateNow
  /\ checkLimit(waiter[c].name)
  /\ waiter' = [waiter EXCEPT ![c].pc = "checked",
                              ![c].result = checkLimitResult(waiter[c].name),
                              ![c].wake = DateNow]
  /\ UNCHANGED configs

WaitWake(c) ==
  /\ WaitWakes(c)
  /\ LimiterFrame

\* One time unit passes.
\* Some timestamp of the limiter is still to come.
LimiterClockRuns ==
  \/ \E n \in DOMAIN limits : limits[n].resetTime >= DateNow
  \/ \E c \in Callers : waiter[c].pc = "sleeping" /\ waiter[c].wake > DateNow

LimiterTime ==
  /\ LimiterClockRuns
  /\ limits' = [n \in DOMAIN limits |->
                  [limits[n] EXCEPT !.resetTime = Max(@ - 1, DateNow - 1)]]
  /\ waiter' = [c \in Callers |->
                  [waiter[c] EXCEPT !.wake = Max(@ - 1, DateNow)]]
  /\ UNCHANGED <<configs, admitted>>

LimiterTick ==
  /\ LimiterTime
  /\ LimiterFrame

LimiterNext ==
  \/ \E n \in Names, config \in Policies : Configure(n, config)
  \/ \E c \in Callers, n \in Names : CheckLimitCall(c, n)
  \/ \E c \in Callers, n \in Names : WaitForLimit(c, n)
  \/ \E c \in Callers : WaitResume(c)
  \/ \E c \in Callers : WaitWake(c)
  \/ LimiterTick

\* Each caller makes one call: finitely many calls compete for a bucket.
CallsOnce(c) == waiter[c].pc = "idle"

CheckLimitOnce(c, name) == CallsOnce(c) /\ CheckLimitCall(c, name)

WaitForLimitOnce(c, name) == CallsOnce(c) /\ WaitForLimit(c, name)

LimiterOnceNext ==
  \/ \E n \in Names, config \in Policies : Configure(n, config)
  \/ \E c \in Callers, n \in Names : CheckLimitOnce(c, n)
  \/ \E c \in Callers, n \in Names : WaitForLimitOnce(c, n)
  \/ \E c \in Callers : WaitResume(c)
  \/ \E c \in Callers : WaitWake(c)
  \/ LimiterTick

\* The event loop runs every continuation and every timer that is due, and
\* time passes.
LimiterFairness ==
  /\ WF_vars(LimiterTick)
  /\ \A c \in Callers : WF_vars(WaitResume(c)) /\ WF_vars(WaitWake(c))

(***************************************************************************)
(* RateLimiter: the introspection calls getRemainingRequests and           *)
(* getResetTime, and configure called again with any policy.               *)
(***************************************************************************)
IntroFrame == UNCHANGED <<retryVars, breakerVars, cacheVars, wsVars, psVars, orderVars,
                          parVars, callVars>>

NoIntrospection == [op |-> "none", name |-> "rpc", value |-> <<>>]

IntroInit == introspected = NoIntrospection

\* getResetTime(name): null, here <<>>, without an entry or with one whose
\* window is over, else the entry's resetTime.
getResetTime(name) ==
  IF name \notin DOMAIN limits THEN <<>>
  ELSE IF DateNow > limits[name].resetTime THEN <<>>
  ELSE <<limits[name].resetTime>>

\* A plausible slip: an introspection call that finds the window over removes
\* the entry.
IntrospectionRotating(name) ==
  IF name \in DOMAIN limits /\ DateNow > limits[name].resetTime
    THEN [k \in DOMAIN limits \ {name} |-> limits[k]]
    ELSE limits

\* this.limits after getRemainingRequests or getResetTime: both only read.
IntrospectionLimits(name) == limits

GetRemainingRequests(name) ==
  /\ introspected' = [op |-> "getRemainingRequests", name |-> name,
                      value |-> <<getRemainingRequests(name)>>]
  /\ limits' = IntrospectionLimits(name)
  /\ UNCHANGED <<configs, waiter, admitted>>
  /\ IntroFrame

GetResetTime(name) ==
  /\ introspected' = [op |-> "getResetTime", name |-> name, value |-> getResetTime(name)]
  /\ limits' = IntrospectionLimits(name)
  /\ UNCHANGED <<configs, waiter, admitted>>
  /\ IntroFrame

\* A plausible slip: configure starts the bucket afresh.
ReconfigureResetting(name, config) ==
  /\ configs' = MapSet(configs, name, config)
  /\ limits' = [k \in DOMAIN limits \ {name} |-> limits[k]]
  /\ UNCHANGED <<waiter, admitted>>
  /\ LimiterFrame

\* configure(name, config) with any policy, whatever the name had before:
\* `this.configs.set(name, config)`.
Reconfigure(name, config) ==
  /\ configs' = MapSet(configs, name, config)
  /\ UNCHANGED <<limits, waiter, admitted>>
  /\ LimiterFrame

\* The bucket "rpc" is configured and configured again, "coingecko" never is;
\* one caller checks the buckets itself, the other waits on "rpc".
IntroNext ==
  \/ \E config \in Policies : Reconfigure("rpc", config)
  \/ \E n \in Names : CheckLimitCall("c1", n)
  \/ WaitForLimit("c2", "rpc")
  \/ WaitResume("c2")
  \/ WaitWake("c2")
  \/ LimiterTick
  \/ \E n \in Names : GetRemainingRequests(n)
  \/ \E n \in Names : GetResetTime(n)

(***************************************************************************)
(* CacheManager (src/src/utils/cache.ts) over node-cache.  The cache's     *)
(* time unit is 30 seconds: ttl values and every expiry time of the cache  *)
(* count such units.  node-cache keeps, per key, the value and the time t  *)
(* at which it expires, with t = 0 meaning that it never expires; an entry *)
(* here holds t measured from the present instant and says separately      *)
(* whether it is the never-expiring kind.  The hit and miss counters of    *)
(* node-cache, which nothing in the repository reads back, are left out.   *)
(***************************************************************************)
CacheNames == {"prices", "balances"}

\* A name that initializeCaches does not register.
AnyCacheName == CacheNames \cup {"quotes"}

\* The keys callers use: `price_${tokenId}` in prices, `balance_${address}` in
\* balances.
Keys == {"price_chz", "price_psg", "balance_0xa"}

KeysFor(name) ==
  IF name = "prices" THEN {"price_chz", "price_psg"}
  ELSE IF name = "balances" THEN {"balance_0xa"}
  ELSE Keys
Values == {"v1", "v2"}

\* stdTTL of the registered caches: prices 60 s, balances 30 s.
stdTTL == [prices |-> 2, balances |-> 1]

\* The optional ttl argument of set: absent, or a number of time units.
TtlArgs == {<<>>} \cup {<<t>> : t \in 1..MaxTtl}

\* A step of the cache manager touches nothing else.
CacheFrame == UNCHANGED <<retryVars, breakerVars, limiterVars, wsVars, psVars,
  orderVars, parVars, introVars, callVars>>

\* How a call ended: the operation, whether it threw, what it returned, and
\* for a get whether it found the key with its time run out.
NoCall == [op |-> "none", threw |-> FALSE, value |-> "undefined", stale |-> FALSE]

CacheInit ==
  /\ caches = [n \in CacheNames |-> <<>>]
  /\ cacheOut = NoCall

\* `throw new Error(`Cache ${cacheName} not found`)`
CacheNotFound(op) == [op |-> op, threw |-> TRUE, value |-> "undefined", stale |-> FALSE]

Returned(op, value) == [op |-> op, threw |-> FALSE, value |-> value, stale |-> FALSE]

\* `ttl || 0`
TtlOrZero(name, ttl) == IF ttl = <<>> \/ ttl[1] = 0 THEN 0 ELSE ttl[1]

\* node-cache _wrap, given a ttl that is a number: 0 makes the entry never
\* expire, any other ttl makes it expire ttl from now.
Wrap(value, ttl) ==
  [v |-> value, unlimited |-> (ttl = 0), t |-> IF ttl = 0 THEN 0 ELSE DateNow + ttl]

\* What the model remembers of the set that made an entry: whether it was made
\* without a ttl, and then when the cache's stdTTL, counted from the set, runs
\* out.
SetBy(name, ttl) ==
  [defaulted |-> (ttl = <<>>),
   due |-> IF ttl = <<>> THEN DateNow + stdTTL[name] ELSE DateNow - 1]

Entry(name, value, ttl) ==
  [f \in {"v", "unlimited", "t", "defaulted", "due"} |->
     IF f \in {"defaulted", "due"} THEN SetBy(name, ttl)[f]
     ELSE Wrap(value, TtlOrZero(name, ttl))[f]]

\* A plausible slip: an entry is dead from the instant it expires.
ExpiredInclusive(entry) == ~entry.unlimited /\ entry.t <= DateNow

\* node-cache _check: `data.t !== 0 && data.t < Date.now()`
Expired(entry) == ~entry.unlimited /\ entry.t < DateNow

\* The data of a NodeCache without one key.
Without(data, key) == [k \in DOMAIN data \ {key} |-> data[k]]

\* node-cache get: the value of a key that is there and not expired; an
\* expired key is deleted on the way (deleteOnExpire) and counts as not there.
GetValue(name, key) ==
  IF key \in DOMAIN caches[name] /\ ~Expired(caches[name][key])
    THEN caches[name][key].v
    ELSE "undefined"

GetData(name, key) ==
  IF key \in DOMAIN caches[name] /\ Expired(caches[name][key])
    THEN Without(caches[name], key)
    ELSE caches[name]

\* get(cacheName, key)
Get(name, key) ==
  /\ IF name \notin CacheNames
       THEN cacheOut' = CacheNotFound("get") /\ UNCHANGED caches
       ELSE /\ cacheOut' = [Returned("get", GetValue(name, key)) EXCEPT
                            !.stale = (GetData(name, key) # caches[name])]
            /\ caches' = [caches EXCEPT ![name] = GetData(name, key)]

CacheGet(name, key) ==
  /\ Get(name, key)
  /\ CacheFrame

\* set(cacheName, key, value, ttl?)
Set(name, key, value, ttl) ==
  /\ IF name \notin CacheNames
       THEN cacheOut' = CacheNotFound("set") /\ UNCHANGED caches
       ELSE /\ cacheOut' = Returned("set", "true")
            /\ caches' = [caches EXCEPT ![name] =
                 MapSet(@, key, Entry(name, value, ttl))]

CacheSet(name, key, value, ttl) ==
  /\ Set(name, key, value, ttl)
  /\ CacheFrame

\* del(cacheName, key)
CacheDel(name, key) ==
  /\ IF name \notin CacheNames
       THEN cacheOut' = CacheNotFound("del") /\ UNCHANGED caches
       ELSE /\ cacheOut' = Returned("del", IF key \in DOMAIN caches[name] THEN "1" ELSE "0")
            /\ caches' = [caches EXCEPT ![name] = Without(@, key)]
  /\ CacheFrame

\* A plausible slip: an unknown name is passed over in silence.
CacheFlushLenient(name) ==
  /\ cacheOut' = Returned("flush", "undefined")
  /\ caches' = [n \in CacheNames |-> IF n = name THEN <<>> ELSE caches[n]]
  /\ CacheFrame

\* flush(cacheName)
CacheFlush(name) ==
  /\ IF name \notin CacheNames
       THEN cacheOut' = CacheNotFound("flush") /\ UNCHANGED caches
       ELSE /\ cacheOut' = Returned("flush", "undefined")
            /\ caches' = [caches EXCEPT ![name] = <<>>]
  /\ CacheFrame

\* flushAll()
CacheFlushAll ==
  /\ cacheOut' = Returned("flushAll", "undefined")
  /\ caches' = [n \in CacheNames |-> <<>>]
  /\ CacheFrame

\* getStats(cacheName): the statistics of one cache, of which the model keeps
\* that there are some.
CacheGetStats(name) ==
  /\ IF name \notin CacheNames
       THEN cacheOut' = CacheNotFound("getStats")
       ELSE cacheOut' = Returned("getStats", "stats")
  /\ UNCHANGED caches
  /\ CacheFrame

\* node-cache _checkData, run every checkperiod: expired keys are deleted.
CacheSweep(name) ==
  /\ \E k \in DOMAIN caches[name] : Expired(caches[name][k])
  /\ caches' = [caches EXCEPT ![name] =
       [k \in {j \in DOMAIN @ : ~Expired(@[j])} |-> @[k]]]
  /\ UNCHANGED cacheOut
  /\ CacheFrame

\* One time unit passes.
\* Some timestamp of the caches is still to come.
CacheClockRuns ==
  \E n \in CacheNames : \E k \in DOMAIN caches[n] :
    \/ ~caches[n][k].unlimited /\ caches[n][k].t >= DateNow
    \/ caches[n][k].due >= DateNow

CacheTime ==
  /\ CacheClockRuns
  /\ caches' = [n \in CacheNames |-> [k \in DOMAIN caches[n] |->
       [caches[n][k] EXCEPT
          !.t = IF caches[n][k].unlimited THEN 0 ELSE Max(@ - 1, DateNow - 1),
          !.due = Max(@ - 1, DateNow - 1)]]]
  /\ UNCHANGED cacheOut

CacheTick ==
  /\ CacheTime
  /\ CacheFrame

CacheNext ==
  \/ \E n \in AnyCacheName : \E k \in KeysFor(n) : CacheGet(n, k)
  \/ \E n \in AnyCacheName : \E k \in KeysFor(n), v \in Values, ttl \in TtlArgs :
       CacheSet(n, k, v, ttl)
  \/ \E n \in AnyCacheName : \E k \in KeysFor(n) : CacheDel(n, k)
  \/ \E n \in AnyCacheName : CacheFlush(n)
  \/ CacheFlushAll
  \/ \E n \in AnyCacheName : CacheGetStats(n)
  \/ \E n \in CacheNames : CacheSweep(n)
  \/ CacheTick

(***************************************************************************)
(* A cached upstream call: CoinGeckoClient.getPrice and                    *)
(* ChilizRPCClient.getBalance.  Both read the cache, return on a hit, wait *)
(* for the rate limiter on a miss, issue their upstream requests, store    *)
(* the result and return it.  The cache manager and the rate limiter are   *)
(* the shared instances modelled above, and the limiter's clock and the    *)
(* cache's clock are one clock.                                            *)
(***************************************************************************)
Methods == {"getPrice", "getBalance"}

\* cacheManager.get('prices', ...) / cacheManager.get('balances', ...)
CacheOf(m) == IF m = "getPrice" THEN "prices" ELSE "balances"

\* rateLimiter.waitForLimit('coingecko') / rateLimiter.waitForLimit('rpc')
BucketOf(m) == IF m = "getPrice" THEN "coingecko" ELSE "rpc"

\* `price_${tokenId}` / `balance_${address}`, for one token and one address.
KeyOf(m) == IF m = "getPrice" THEN "price_chz" ELSE "balance_0xa"

\* A call of caller c: pc is idle, waiting (inside waitForLimit), request1 (the
\* first upstream request is out), request2 (the second one: /coins/{id}, or
\* the loop over the fan tokens), returned (with `value`) or threw; sent is
\* the number of upstream requests the call has issued.
IdleCall == [pc |-> "idle", method |-> "getPrice", value |-> "undefined", sent |-> 0]

CallFrame == UNCHANGED <<retryVars, breakerVars, wsVars, psVars, orderVars,
  parVars, introVars>>

CallInit == call = [c \in Callers |-> IdleCall]

\* The constructors of both clients have run: each bucket has its policy.
CallPolicy == [maxRequests |-> 1, windowMs |-> MaxWindowMs]

CallConfigured == configs = [n \in Names |-> CallPolicy]

\* A plausible slip: the limiter is asked before the cache is read.
CachedCallLimitFirst(c, m) ==
  /\ call[c].pc \in {"idle", "returned", "threw"}
  /\ Get(CacheOf(m), KeyOf(m))
  /\ WaitEnters(c, BucketOf(m))
  /\ call' = [call EXCEPT ![c] =
       IF GetValue(CacheOf(m), KeyOf(m)) # "undefined"
         THEN [pc |-> "returned", method |-> m,
               value |-> GetValue(CacheOf(m), KeyOf(m)), sent |-> 0]
         ELSE [pc |-> "waiting", method |-> m, value |-> "undefined", sent |-> 0]]
  /\ CallFrame

\* The call up to its first await: the cache is read; `if (cached) return
\* cached`; otherwise waitForLimit is entered, whose first checkLimit runs
\* before it suspends.
CachedCall(c, m) ==
  /\ call[c].pc \in {"idle", "returned", "threw"}
  /\ Get(CacheOf(m), KeyOf(m))
  /\ IF GetValue(CacheOf(m), KeyOf(m)) # "undefined"
       THEN /\ call' = [call EXCEPT ![c] =
                 [pc |-> "returned", method |-> m,
                  value |-> GetValue(CacheOf(m), KeyOf(m)), sent |-> 0]]
            /\ UNCHANGED limiterVars
       ELSE /\ WaitEnters(c, BucketOf(m))
            /\ call' = [call EXCEPT ![c] =
                 [pc |-> "waiting", method |-> m, value |-> "undefined", sent |-> 0]]
  /\ CallFrame

\* waitForLimit goes on after its await, for a caller inside a cached call.
CallWaitContinues(c) ==
  /\ call[c].pc = "waiting"
  /\ WaitContinues(c)
  /\ UNCHANGED <<cacheVars, callVars>>
  /\ CallFrame

\* The sleep of waitForLimit is over.
CallWaitWakes(c) ==
  /\ call[c].pc = "waiting"
  /\ WaitWakes(c)
  /\ UNCHANGED <<cacheVars, callVars>>
  /\ CallFrame

\* waitForLimit has returned: the first upstream request is issued
\* (client.get('/simple/price') / provider.getBalance(address)).
CallRequests(c) ==
  /\ call[c].pc = "waiting"
  /\ waiter[c].pc = "returned"
  /\ call' = [call EXCEPT ![c].pc = "request1", ![c].sent = 1]
  /\ UNCHANGED <<limiterVars, cacheVars>>
  /\ CallFrame

\* The first request resolves.  getPrice returns null when the response has
\* nothing for the token (`if (!data) return null`), and otherwise issues its
\* second request; getBalance goes on to the fan tokens.
Request1Resolves(c, hasData) ==
  /\ call[c].pc = "request1"
  /\ call[c].method = "getBalance" => hasData
  /\ call' = [call EXCEPT ![c] =
       IF hasData THEN [@ EXCEPT !.pc = "request2", !.sent = 2]
                  ELSE [@ EXCEPT !.pc = "returned", !.value = "null"]]
  /\ UNCHANGED <<limiterVars, cacheVars>>
  /\ CallFrame

\* A plausible slip: what could be fetched is stored before the failure is
\* reported.
RequestRejectsStoring(c) ==
  /\ call[c].pc \in {"request1", "request2"}
  /\ call[c].pc = "request2" => call[c].method = "getPrice"
  /\ Set(CacheOf(call[c].method), KeyOf(call[c].method), "v1", <<>>)
  /\ call' = [call EXCEPT ![c].pc = "threw"]
  /\ UNCHANGED limiterVars
  /\ CallFrame

\* A request rejects: the catch block throws { code, message, details }.  The
\* failures of the fan-token requests of getBalance are caught inside the loop
\* and do not end the call.
RequestRejects(c) ==
  /\ call[c].pc \in {"request1", "request2"}
  /\ call[c].pc = "request2" => call[c].method = "getPrice"
  /\ call' = [call EXCEPT ![c].pc = "threw"]
  /\ UNCHANGED <<limiterVars, cacheVars>>
  /\ CallFrame

\* The last request resolves (for getBalance: the loop over the fan tokens is
\* through, whatever failed in it): the result is built, stored without a ttl
\* and returned.
Request2Resolves(c, value) ==
  /\ call[c].pc = "request2"
  /\ Set(CacheOf(call[c].method), KeyOf(call[c].method), value, <<>>)
  /\ call' = [call EXCEPT ![c].pc = "returned", ![c].value = value]
  /\ UNCHANGED limiterVars
  /\ CallFrame

\* One time unit passes, for the limiter and for the caches.
CallTick ==
  /\ LimiterClockRuns \/ CacheClockRuns
  /\ IF LimiterClockRuns THEN LimiterTime ELSE UNCHANGED limiterVars
  /\ IF CacheClockRuns THEN CacheTime ELSE UNCHANGED cacheVars
  /\ UNCHANGED callVars
  /\ CallFrame

CachedNext ==
  \/ \E m \in Methods : CachedCall("c1", m)
  \/ CachedCall("c2", "getPrice")
  \/ \E c \in Callers : CallWaitContinues(c)
  \/ \E c \in Callers : CallWaitWakes(c)
  \/ \E c \in Callers : CallRequests(c)
  \/ \E c \in Callers, hasData \in BOOLEAN : Request1Resolves(c, hasData)
  \/ \E c \in Callers : RequestRejects(c)
  \/ \E c \in Callers, value \in Values : Request2Resolves(c, value)
  \/ CallTick

(***************************************************************************)
(* WebSocketProvider (src/src/api/websocket-provider.ts).  A physical      *)
(* connection is an ethers.WebSocketProvider with its socket: it exists    *)
(* from its construction until its socket's close event has been           *)
(* delivered.  Per event (block, pending, or a log filter) it counts the   *)
(* handlers that provider.on has registered on it.                         *)
(***************************************************************************)
Listeners == {"A", "B"}
Filters == {"f1", "f2"}
Events == {"block", "pending"} \cup Filters

\* A step of the provider touches nothing else.
WsFrame == UNCHANGED <<retryVars, breakerVars, limiterVars, cacheVars, psVars,
  orderVars, parVars, introVars, callVars>>

\* No upstream event has been fanned out yet.
NoDelivery == [event |-> "none", count |-> [l \in Listeners |-> 0]]

WsInit ==
  /\ provider = 0
  /\ blockListeners = {}
  /\ logListeners = <<>>
  /\ pendingTxListeners = {}
  /\ reconnectAttempts = 0
  /\ wsTimers = 0
  /\ wsDelays = <<>>
  /\ conns = <<>>
  /\ wsStopped = FALSE
  /\ wsDelivered = NoDelivery
  /\ wsFailedRun = 0
  /\ wsReconnected = FALSE

\* new ethers.WebSocketProvider(wssEndpoint): open means not destroyed;
\* established means that the socket's handshake has completed.
FreshConn == [open |-> TRUE, established |-> FALSE, regs |-> [e \in Events |-> 0]]

FreeConns == (1..MaxConns) \ DOMAIN conns

NewConn == CHOOSE i \in FreeConns : \A j \in FreeConns : i <= j

\* connect(): nothing when this.provider is set; otherwise the constructor
\* either throws or gives the new this.provider, and reconnectAttempts is 0
\* again.
ConnectMakes(throws) == provider = 0 /\ ~throws

ConnectPossible(throws) == ConnectMakes(throws) => FreeConns # {}

ProviderAfterConnect(throws) ==
  IF provider # 0 THEN provider ELSE IF throws THEN 0 ELSE NewConn

ConnsAfterConnect(throws) ==
  IF ConnectMakes(throws) THEN MapSet(conns, NewConn, FreshConn) ELSE conns

AttemptsAfterConnect(throws) ==
  IF ConnectMakes(throws) THEN 0 ELSE reconnectAttempts

\* provider.on(event, handler) on connection p of the connections cs.
On(cs, p, event) ==
  [cs EXCEPT ![p].regs[event] = Min(@ + 1, MaxRegs)]

\* provider.off(event) on connection p: every handler of the event goes.
Off(cs, p, event) == [cs EXCEPT ![p].regs[event] = 0]

\* connect() called by a caller.
WsConnect(throws) ==
  /\ ConnectPossible(throws)
  /\ provider' = ProviderAfterConnect(throws)
  /\ conns' = ConnsAfterConnect(throws)
  /\ reconnectAttempts' = AttemptsAfterConnect(throws)
  /\ wsStopped' = FALSE
  /\ wsReconnected' = IF ConnectMakes(throws) THEN FALSE ELSE wsReconnected
  /\ wsDelivered' = NoDelivery
  /\ wsFailedRun' = IF provider = 0 THEN 0 ELSE wsFailedRun
  /\ UNCHANGED <<blockListeners, logListeners, pendingTxListeners, wsTimers, wsDelays>>
  /\ WsFrame

\* What a subscribe call does to the connection state: `await this.connect()`.
SubscribeConnects(throws) ==
  /\ ConnectPossible(throws)
  /\ provider' = ProviderAfterConnect(throws)
  /\ reconnectAttempts' = AttemptsAfterConnect(throws)
  /\ wsReconnected' = IF ConnectMakes(throws) THEN FALSE ELSE wsReconnected
  /\ wsStopped' = FALSE
  /\ wsDelivered' = NoDelivery
  /\ wsFailedRun' = IF provider = 0 THEN 0 ELSE wsFailedRun
  /\ UNCHANGED <<wsTimers, wsDelays>>

\* A plausible slip: every subscriber registers a handler of its own.
FirstForFilterAlways(filter) == TRUE

\* `!this.logListeners.has(filterId)`
FirstForFilter(filter) == filter \notin DOMAIN logListeners

\* subscribeToLogs(filter, callback)
SubscribeToLogs(filter, callback, throws) ==
  LET p == ProviderAfterConnect(throws)
      cs == ConnsAfterConnect(throws)
      before == IF filter \in DOMAIN logListeners THEN logListeners[filter] ELSE {}
  IN  /\ SubscribeConnects(throws)
      /\ IF p = 0
           THEN UNCHANGED <<conns, logListeners>>
           ELSE /\ conns' = IF FirstForFilter(filter) THEN On(cs, p, filter) ELSE cs
                /\ logListeners' = MapSet(logListeners, filter, before \cup {callback})
      /\ UNCHANGED <<blockListeners, pendingTxListeners>>
      /\ WsFrame

\* `listeners.size === 0 && this.provider`
LastListenerGone(filter, callback) ==
  logListeners[filter] \ {callback} = {} /\ provider # 0

\* unsubscribeFromLogs(filter, callback)
UnsubscribeFromLogs(filter, callback) ==
  /\ IF filter \notin DOMAIN logListeners
       THEN UNCHANGED <<conns, logListeners>>
       ELSE IF LastListenerGone(filter, callback)
         THEN /\ conns' = IF provider # 0 THEN Off(conns, provider, filter) ELSE conns
              /\ logListeners' = Without(logListeners, filter)
         ELSE /\ logListeners' = [logListeners EXCEPT ![filter] = @ \ {callback}]
              /\ UNCHANGED conns
  /\ wsDelivered' = NoDelivery
  /\ UNCHANGED <<provider, blockListeners, pendingTxListeners, reconnectAttempts,
                 wsTimers, wsDelays, wsStopped, wsFailedRun, wsReconnected>>
  /\ WsFrame

\* `this.blockListeners.size === 1`, tested after the add.
FirstOfSet(before, callback) == Cardinality(before \cup {callback}) = 1

\* subscribeToNewBlocks(callback)
SubscribeToNewBlocks(callback, throws) ==
  LET p == ProviderAfterConnect(throws)
      cs == ConnsAfterConnect(throws)
  IN  /\ SubscribeConnects(throws)
      /\ IF p = 0
           THEN UNCHANGED <<conns, blockListeners>>
           ELSE /\ blockListeners' = blockListeners \cup {callback}
                /\ conns' = IF FirstOfSet(blockListeners, callback)
                              THEN On(cs, p, "block") ELSE cs
      /\ UNCHANGED <<logListeners, pendingTxListeners>>
      /\ WsFrame

\* subscribeToPendingTransactions(callback)
SubscribeToPendingTransactions(callback, throws) ==
  LET p == ProviderAfterConnect(throws)
      cs == ConnsAfterConnect(throws)
  IN  /\ SubscribeConnects(throws)
      /\ IF p = 0
           THEN UNCHANGED <<conns, pendingTxListeners>>
           ELSE /\ pendingTxListeners' = pendingTxListeners \cup {callback}
                /\ conns' = IF FirstOfSet(pendingTxListeners, callback)
                              THEN On(cs, p, "pending") ELSE cs
      /\ UNCHANGED <<logListeners, blockListeners>>
      /\ WsFrame

\* unsubscribeFromBlocks(callback)
UnsubscribeFromBlocks(callback) ==
  /\ blockListeners' = blockListeners \ {callback}
  /\ conns' = IF blockListeners \ {callback} = {} /\ provider # 0
                THEN Off(conns, provider, "block") ELSE conns
  /\ wsDelivered' = NoDelivery
  /\ UNCHANGED <<provider, logListeners, pendingTxListeners, reconnectAttempts,
                 wsTimers, wsDelays, wsStopped, wsFailedRun, wsReconnected>>
  /\ WsFrame

\* unsubscribeFromPendingTransactions(callback)
UnsubscribeFromPendingTransactions(callback) ==
  /\ pendingTxListeners' = pendingTxListeners \ {callback}
  /\ conns' = IF pendingTxListeners \ {callback} = {} /\ provider # 0
                THEN Off(conns, provider, "pending") ELSE conns
  /\ wsDelivered' = NoDelivery
  /\ UNCHANGED <<provider, logListeners, blockListeners, reconnectAttempts,
                 wsTimers, wsDelays, wsStopped, wsFailedRun, wsReconnected>>
  /\ WsFrame

\* disconnect(): with a provider, destroy it (its handlers go, its socket is
\* closed and will report the close), forget it and clear the listeners;
\* without one, nothing.
WsDisconnect ==
  /\ IF provider # 0
       THEN /\ conns' = [conns EXCEPT ![provider].open = FALSE,
                                      ![provider].regs = [e \in Events |-> 0]]
            /\ provider' = 0
            /\ blockListeners' = {}
            /\ logListeners' = <<>>
            /\ pendingTxListeners' = {}
            /\ wsReconnected' = FALSE
       ELSE UNCHANGED <<conns, provider, blockListeners, logListeners,
                        pendingTxListeners, wsReconnected>>
  /\ wsStopped' = TRUE
  /\ wsDelivered' = NoDelivery
  /\ UNCHANGED <<reconnectAttempts, wsTimers, wsDelays, wsFailedRun>>
  /\ WsFrame

\* The socket of a connection reports open: the handshake has completed.
SocketOpens(id) ==
  /\ id \in DOMAIN conns
  /\ conns[id].open /\ ~conns[id].established
  /\ conns' = [conns EXCEPT ![id].established = TRUE]
  /\ wsFailedRun' = 0
  /\ wsDelivered' = NoDelivery
  /\ UNCHANGED <<provider, blockListeners, logListeners, pendingTxListeners,
                 reconnectAttempts, wsTimers, wsDelays, wsStopped, wsReconnected>>
  /\ WsFrame

\* `private reconnectDelay = 5000`
reconnectDelay == 5000

\* `this.reconnectDelay * this.reconnectAttempts`, the delay of the timer that
\* handleDisconnect sets, in ms.
ReconnectDelayMs(attemptNo) == reconnectDelay * attemptNo

\* handleDisconnect schedules a reconnect.
SchedulesReconnect == reconnectAttempts < maxReconnectAttempts

\* The socket of a connection reports close, whether the peer closed it, the
\* handshake failed or the provider was destroyed: the connection is gone and
\* the close handler runs handleDisconnect.
SocketCloses(id) ==
  /\ id \in DOMAIN conns
  /\ SchedulesReconnect => wsTimers < MaxTimers
  /\ conns' = Without(conns, id)
  /\ provider' = 0
  /\ IF SchedulesReconnect
       THEN /\ reconnectAttempts' = reconnectAttempts + 1
            /\ wsTimers' = wsTimers + 1
            /\ wsDelays' = MapSet(wsDelays, reconnectAttempts + 1,
                                   ReconnectDelayMs(reconnectAttempts + 1))
       ELSE UNCHANGED <<reconnectAttempts, wsTimers, wsDelays>>
  /\ wsFailedRun' = IF conns[id].open /\ ~conns[id].established
                      THEN Min(wsFailedRun + 1, maxReconnectAttempts + 1)
                      ELSE wsFailedRun
  /\ wsReconnected' = FALSE
  /\ wsDelivered' = NoDelivery
  /\ UNCHANGED <<blockListeners, logListeners, pendingTxListeners, wsStopped>>
  /\ WsFrame

\* A reconnect timer fires: connect(), its rejection caught and logged.
ReconnectTimerFires(throws) ==
  /\ wsTimers > 0
  /\ ConnectPossible(throws)
  /\ wsTimers' = wsTimers - 1
  /\ UNCHANGED wsDelays
  /\ provider' = ProviderAfterConnect(throws)
  /\ conns' = ConnsAfterConnect(throws)
  /\ reconnectAttempts' = AttemptsAfterConnect(throws)
  /\ wsReconnected' = IF ConnectMakes(throws) THEN TRUE ELSE wsReconnected
  /\ wsFailedRun' = IF provider = 0 /\ throws
                      THEN Min(wsFailedRun + 1, maxReconnectAttempts + 1)
                      ELSE wsFailedRun
  /\ wsDelivered' = NoDelivery
  /\ UNCHANGED <<blockListeners, logListeners, pendingTxListeners, wsStopped>>
  /\ WsFrame

\* A connection can hand events to its handlers.
Live(id) == id \in DOMAIN conns /\ conns[id].open /\ conns[id].established

\* A log matching a filter arrives on a connection: each handler registered
\* for the filter hands it to every listener that logListeners holds for the
\* filter at that moment.
UpstreamLog(id, filter) ==
  /\ Live(id)
  /\ conns[id].regs[filter] > 0
  /\ wsDelivered' =
       [event |-> filter,
        count |-> [l \in Listeners |->
           IF filter \in DOMAIN logListeners /\ l \in logListeners[filter]
             THEN conns[id].regs[filter] ELSE 0]]
  /\ UNCHANGED <<provider, blockListeners, logListeners, pendingTxListeners,
                 reconnectAttempts, wsTimers, wsDelays, conns, wsStopped, wsFailedRun, wsReconnected>>
  /\ WsFrame

\* What the handlers of a block or pending event reach: nothing when
\* this.provider is null (the lookup throws and is caught) or the lookup gives
\* nothing, otherwise every listener of the set, once per handler.
FanOut(id, event, listeners, found) ==
  [event |-> event,
   count |-> [l \in Listeners |->
      IF provider # 0 /\ found /\ l \in listeners THEN conns[id].regs[event] ELSE 0]]

\* A new block arrives on a connection.
UpstreamBlock(id, found) ==
  /\ Live(id)
  /\ conns[id].regs["block"] > 0
  /\ wsDelivered' = FanOut(id, "block", blockListeners, found)
  /\ UNCHANGED <<provider, blockListeners, logListeners, pendingTxListeners,
                 reconnectAttempts, wsTimers, wsDelays, conns, wsStopped, wsFailedRun, wsReconnected>>
  /\ WsFrame

\* A pending transaction arrives on a connection.
UpstreamPending(id, found) ==
  /\ Live(id)
  /\ conns[id].regs["pending"] > 0
  /\ wsDelivered' = FanOut(id, "pending", pendingTxListeners, found)
  /\ UNCHANGED <<provider, blockListeners, logListeners, pendingTxListeners,
                 reconnectAttempts, wsTimers, wsDelays, conns, wsStopped, wsFailedRun, wsReconnected>>
  /\ WsFrame

\* The provider with log subscriptions only.
WsLogsNext ==
  \/ \E throws \in BOOLEAN : WsConnect(throws)
  \/ \E f \in Filters, l \in Listeners, throws \in BOOLEAN : SubscribeToLogs(f, l, throws)
  \/ \E f \in Filters, l \in Listeners : UnsubscribeFromLogs(f, l)
  \/ WsDisconnect
  \/ \E id \in 1..MaxConns : SocketOpens(id)
  \/ \E id \in 1..MaxConns : SocketCloses(id)
  \/ \E throws \in BOOLEAN : ReconnectTimerFires(throws)
  \/ \E id \in 1..MaxConns, f \in Filters : UpstreamLog(id, f)

\* The provider with block and pending-transaction subscriptions only.
WsBlocksNext ==
  \/ \E throws \in BOOLEAN : WsConnect(throws)
  \/ \E l \in Listeners, throws \in BOOLEAN : SubscribeToNewBlocks(l, throws)
  \/ \E l \in Listeners : UnsubscribeFromBlocks(l)
  \/ \E l \in Listeners, throws \in BOOLEAN : SubscribeToPendingTransactions(l, throws)
  \/ \E l \in Listeners : UnsubscribeFromPendingTransactions(l)
  \/ WsDisconnect
  \/ \E id \in 1..MaxConns : SocketOpens(id)
  \/ \E id \in 1..MaxConns : SocketCloses(id)
  \/ \E throws \in BOOLEAN : ReconnectTimerFires(throws)
  \/ \E id \in 1..MaxConns, found \in BOOLEAN : UpstreamBlock(id, found)
  \/ \E id \in 1..MaxConns, found \in BOOLEAN : UpstreamPending(id, found)

(***************************************************************************)
(* WebSocketProvider: the handlers that subscribeToNewBlocks,              *)
(* subscribeToLogs and subscribeToPendingTransactions register, event by   *)
(* event.  The 'block' and 'pending' handlers await a lookup of the event  *)
(* before they fan it out; the log handler fans out at once.  A listener   *)
(* may throw when it is called.                                            *)
(***************************************************************************)
MaxEvents == 2

OrderFrame ==
  UNCHANGED <<retryVars, breakerVars, limiterVars, cacheVars, wsVars, psVars, parVars,
              introVars, callVars>>

OrderInit ==
  /\ upstream = 0
  /\ lookups = {}
  /\ deliveries = <<>>

\* Set.prototype.forEach visits the listeners in insertion order; the model
\* takes "A" to have been added before "B".
AddedBefore(l1, l2) == l1 = "A" /\ l2 = "B"

\* A plausible slip: no try/catch around the listener call, so that a throw
\* ends the forEach.
CalledUntilThrow(held, throwers) ==
  {l \in held : \A t \in held \cap throwers : ~AddedBefore(t, l)}

\* `listeners.forEach(listener => { try { listener(event) } catch ... })`
Called(held, throwers) == held

\* One fan-out of event number n to the listeners held for it.
Notify(event, n, held, throwers) ==
  deliveries' = Append(deliveries,
                       [event |-> event, n |-> n, held |-> held,
                        called |-> Called(held, throwers),
                        threw |-> Called(held, throwers) \cap throwers])

\* A log of a filter arrives: the handler of provider.on(filter) runs.
LogArrives(id, filter, throwers) ==
  /\ Live(id)
  /\ conns[id].regs[filter] >= 1
  /\ upstream < MaxEvents
  /\ upstream' = upstream + 1
  /\ IF filter \in DOMAIN logListeners
       THEN Notify(filter, upstream + 1, logListeners[filter], throwers)
       ELSE UNCHANGED deliveries
  /\ UNCHANGED <<lookups, wsVars>>
  /\ OrderFrame

\* A block or a pending transaction arrives: every handler registered for it
\* on the connection starts its lookup on this.provider.
LookupStarts(id, event) ==
  /\ Live(id)
  /\ event \in {"block", "pending"}
  /\ conns[id].regs[event] >= 1
  /\ upstream < MaxEvents
  /\ upstream' = upstream + 1
  /\ lookups' = IF provider = 0 THEN lookups
                ELSE lookups \cup {[event |-> event, n |-> upstream + 1, handler |-> h] :
                                     h \in 1..conns[id].regs[event]}
  /\ UNCHANGED <<deliveries, wsVars>>
  /\ OrderFrame

\* A lookup is answered: `if (!block) return`, else the fan-out.
LookupResolves(lookup, found, throwers) ==
  /\ lookup \in lookups
  /\ lookups' = lookups \ {lookup}
  /\ IF found
       THEN Notify(lookup.event, lookup.n,
                   IF lookup.event = "block" THEN blockListeners ELSE pendingTxListeners,
                   throwers)
       ELSE UNCHANGED deliveries
  /\ UNCHANGED <<upstream, wsVars>>
  /\ OrderFrame

\* The listeners that throw when a fan-out calls them.
Throwers == {{}, {"A"}}

\* Callers subscribe, to one log filter among others; events arrive and are
\* looked up and fanned out.
WsOrderNext ==
  \/ \E l \in Listeners : SubscribeToLogs("f1", l, FALSE)
  \/ \E l \in Listeners : SubscribeToNewBlocks(l, FALSE)
  \/ \E l \in Listeners : SubscribeToPendingTransactions(l, FALSE)
  \/ \E id \in 1..MaxConns : SocketOpens(id)
  \/ \E id \in 1..MaxConns, throwers \in Throwers : LogArrives(id, "f1", throwers)
  \/ \E id \in 1..MaxConns, event \in {"block", "pending"} : LookupStarts(id, event)
  \/ \E event \in {"block", "pending"}, n \in 1..MaxEvents, h \in 1..MaxRegs,
        found \in BOOLEAN, throwers \in Throwers :
       LookupResolves([event |-> event, n |-> n, handler |-> h], found, throwers)

(***************************************************************************)
(* ErrorHandler.withParallel.  An operation is an asynchronous callable:   *)
(* calling it yields a promise, which stays pending, fulfils with a value  *)
(* or rejects with a raw error.                                            *)
(***************************************************************************)
MaxOperations == 3

ParallelFrame ==
  UNCHANGED <<retryVars, breakerVars, limiterVars, cacheVars, wsVars, psVars, orderVars,
              introVars, callVars>>

ParallelInit ==
  /\ parResults = <<>>
  /\ parFailFast = FALSE
  /\ parPc = "idle"
  /\ parValues = <<>>
  /\ parThrown = NoError

Pending == [status |-> "pending", value |-> "", reason |-> NoError]
Fulfilled(value) == [status |-> "fulfilled", value |-> value, reason |-> NoError]
Rejected(reason) == [status |-> "rejected", value |-> "", reason |-> reason]

\* A plausible slip: the first failure is thrown whether or not failFast is set.
SettledLoopAlwaysFailFast(results, i, values, failFast) ==
  LET firstRejected == {k \in i..Len(results) : results[k].status = "rejected"}
      stop == IF firstRejected = {} THEN Len(results) + 1
              ELSE CHOOSE k \in firstRejected : \A m \in firstRejected : k <= m
      pushed == [k \in 1..(stop - i) |-> results[i + k - 1].value]
  IN  IF firstRejected = {}
        THEN [threw |-> FALSE, error |-> NoError, values |-> values \o pushed]
        ELSE [threw |-> TRUE, error |-> wrapError(results[stop].reason, Context),
              values |-> values \o pushed]

\* `for (const result of results)` from the i-th result on, with the values
\* pushed so far: what the call throws, or the values it returns.
RECURSIVE SettledLoop(_, _, _, _)
SettledLoop(results, i, values, failFast) ==
  IF i > Len(results)
    THEN [threw |-> FALSE, error |-> NoError, values |-> values]
  ELSE IF results[i].status = "fulfilled"
    THEN SettledLoop(results, i + 1, Append(values, results[i].value), failFast)
  ELSE IF failFast
    THEN [threw |-> TRUE, error |-> wrapError(results[i].reason, Context),
          values |-> values]
    ELSE SettledLoop(results, i + 1, values, failFast)

\* Promise.allSettled(...) has resolved: no promise is pending.
AllSettled == \A i \in DOMAIN parResults : parResults[i].status # "pending"

\* A caller calls withParallel(operations, context, { failFast }): every
\* operation is called and the call awaits Promise.allSettled.
WithParallel(n, failFast) ==
  /\ parPc \in {"idle", "returned", "thrown"}
  /\ parResults' = [i \in 1..n |-> Pending]
  /\ parFailFast' = failFast
  /\ parPc' = "awaiting"
  /\ parValues' = <<>>
  /\ parThrown' = NoError
  /\ ParallelFrame

\* The promise of the i-th operation fulfils.
OperationFulfils(i, value) ==
  /\ i \in DOMAIN parResults
  /\ parResults[i].status = "pending"
  /\ parResults' = [parResults EXCEPT ![i] = Fulfilled(value)]
  /\ UNCHANGED <<parFailFast, parPc, parValues, parThrown>>
  /\ ParallelFrame

\* The promise of the i-th operation rejects.
OperationFails(i, reason) ==
  /\ i \in DOMAIN parResults
  /\ parResults[i].status = "pending"
  /\ parResults' = [parResults EXCEPT ![i] = Rejected(reason)]
  /\ UNCHANGED <<parFailFast, parPc, parValues, parThrown>>
  /\ ParallelFrame

\* The await of Promise.allSettled is over: the loop over the results, and
\* the return or the throw.
ParallelSettled ==
  /\ parPc = "awaiting"
  /\ AllSettled
  /\ LET out == SettledLoop(parResults, 1, <<>>, parFailFast)
     IN  IF out.threw
           THEN parPc' = "thrown" /\ parThrown' = out.error /\ UNCHANGED parValues
           ELSE parPc' = "returned" /\ parValues' = out.values /\ UNCHANGED parThrown
  /\ UNCHANGED <<parResults, parFailFast>>
  /\ ParallelFrame

ParallelNext ==
  \/ \E n \in 0..MaxOperations, failFast \in BOOLEAN : WithParallel(n, failFast)
  \/ \E i \in 1..MaxOperations, value \in Results : OperationFulfils(i, value)
  \/ \E i \in 1..MaxOperations, reason \in RawErrors : OperationFails(i, reason)
  \/ ParallelSettled

(***************************************************************************)
(* A circuit-breaker guard called inside withRetry:                        *)
(* withRetry(() => guard(operation, context), context, config).  The       *)
(* operation of withRetry is the guarded call; what the guard throws is    *)
(* what the catch block of withRetry receives.                             *)
(***************************************************************************)
GuardedFrame == UNCHANGED <<limiterVars, cacheVars, wsVars, psVars, orderVars, parVars,
                            introVars, callVars>>

\* The policies the callers of the guarded call pass: the default, or maxRetries.
GuardedConfigs == {config \in ConfigOverrides : DOMAIN config \subseteq {"maxRetries"}}

GuardedWithRetry(config) ==
  /\ RetryCall(config)
  /\ UNCHANGED breakerVars
  /\ GuardedFrame

\* The loop body invokes the guard: an open circuit within its cooldown throws
\* the breaker-open error into the catch block of withRetry at once, otherwise
\* the operation is invoked and both await it.
GuardedAttempt(r) ==
  /\ rtPc = "operation"
  /\ cbInFlight = 0
  /\ GuardCall
  /\ IF CooldownRunning
       THEN RetryCatch(CircuitBreakerOpenError, r)
       ELSE UNCHANGED retryVars
  /\ GuardedFrame

\* The operation fulfilled: the guard returns its value, and so does withRetry.
GuardedResolves(value) ==
  /\ GuardReturn
  /\ RetryReturn(value)
  /\ GuardedFrame

\* The operation rejected: the guard counts the failure and throws the wrapped
\* error, which withRetry catches.
GuardedRejects(error, r) ==
  /\ GuardCatch(error)
  /\ RetryCatch(wrapError(error, Context), r)
  /\ GuardedFrame

GuardedSleepElapses ==
  /\ RetryResume
  /\ UNCHANGED breakerVars
  /\ GuardedFrame

GuardedTick ==
  /\ BreakerTime
  /\ UNCHANGED retryVars
  /\ GuardedFrame

GuardedNext ==
  \/ \E config \in GuardedConfigs : GuardedWithRetry(config)
  \/ \E r \in 0..(JitterSteps - 1) : GuardedAttempt(r)
  \/ \E value \in Results : GuardedResolves(value)
  \/ \E error \in RawErrors, r \in 0..(JitterSteps - 1) : GuardedRejects(error, r)
  \/ GuardedSleepElapses
  \/ GuardedTick

(***************************************************************************)
(* PriceStream (contracts/compiler.ts): start, stop, connect and           *)
(* handleReconnect, and the 'error' and 'close' events of its connections. *)
(* The stream is taken with whale alerts and DEX monitoring enabled, as    *)
(* its constructor defaults them; the handlers startWhaleAlerts and        *)
(* startDEXActivityMonitoring put on a connection count as one set.        *)
(***************************************************************************)
MaxPsConns == 2
MaxPsRegs == 2
MaxPolls == 2
MaxSleeping == 2
MaxStarting == 2
\* PriceStream.maxReconnectAttempts (10 in the source)
psMaxReconnectAttempts == 2

PsFrame == UNCHANGED <<retryVars, breakerVars, limiterVars, cacheVars, wsVars,
  orderVars, parVars, introVars, callVars>>

PsInit ==
  /\ wsProvider = 0
  /\ isStreaming = FALSE
  /\ psReconnectAttempts = 0
  /\ priceUpdateInterval = FALSE
  /\ psPolls = 0
  /\ psSleeping = 0
  /\ psStarting = 0
  /\ psConns = <<>>
  /\ psOut = "none"
  /\ psDelays = <<>>

\* The fields of the stream, as one value that the methods transform.
PsNow ==
  [wsProvider |-> wsProvider, isStreaming |-> isStreaming,
   reconnectAttempts |-> psReconnectAttempts,
   priceUpdateInterval |-> priceUpdateInterval, polls |-> psPolls,
   sleeping |-> psSleeping, starting |-> psStarting, conns |-> psConns,
   delays |-> psDelays]

PsBecomes(s) ==
  /\ wsProvider' = s.wsProvider
  /\ isStreaming' = s.isStreaming
  /\ psReconnectAttempts' = s.reconnectAttempts
  /\ priceUpdateInterval' = s.priceUpdateInterval
  /\ psPolls' = s.polls
  /\ psSleeping' = s.sleeping
  /\ psStarting' = s.starting
  /\ psConns' = s.conns
  /\ psDelays' = s.delays

\* The connections that are open: made, not closed and not destroyed.
PsOpenConns(s) == {id \in DOMAIN s.conns : s.conns[id].open}

\* A closed connection stays in conns only while this.wsProvider refers to it.
PsFreeConns(s) == (1..MaxPsConns) \ PsOpenConns(s)

\* connect() without a throw: a new connection replaces this.wsProvider; the
\* connection it referred to is left as it is.
PsConnect(s) ==
  LET id == CHOOSE i \in PsFreeConns(s) : \A j \in PsFreeConns(s) : i <= j
      kept == [i \in PsOpenConns(s) |-> s.conns[i]]
  IN  [s EXCEPT !.wsProvider = id,
                !.conns = kept @@ (id :> [open |-> TRUE, regs |-> 0]),
                !.reconnectAttempts = 0]

\* stop()
PsStop(s) ==
  IF ~s.isStreaming THEN s
  ELSE [s EXCEPT
         !.isStreaming = FALSE,
         !.polls = IF s.priceUpdateInterval THEN s.polls - 1 ELSE s.polls,
         !.priceUpdateInterval = FALSE,
         !.conns = [i \in DOMAIN s.conns \ {s.wsProvider} |-> s.conns[i]],
         !.wsProvider = 0]

\* startPriceUpdates()
PsStartPriceUpdates(s) ==
  [s EXCEPT !.polls = s.polls + 1, !.priceUpdateInterval = TRUE]

\* startWhaleAlerts() and startDEXActivityMonitoring()
PsStartWhaleAlerts(s) ==
  IF s.wsProvider = 0 THEN s
  ELSE [s EXCEPT !.conns[s.wsProvider].regs = Min(@ + 1, MaxPsRegs)]

\* `Math.min(1000 * Math.pow(2, this.reconnectAttempts), 30000)`, in ms.
PsReconnectDelay(attemptNo) == Min(1000 * Pow(2, attemptNo), 30000)

\* handleReconnect() up to its delay.
PsHandleReconnect(s) ==
  IF s.reconnectAttempts >= psMaxReconnectAttempts
    THEN PsStop(s)
    ELSE [s EXCEPT !.reconnectAttempts = @ + 1, !.sleeping = @ + 1,
                   !.delays = MapSet(@, s.reconnectAttempts + 1,
                                     PsReconnectDelay(s.reconnectAttempts + 1))]

PsMaySleep(s) ==
  s.reconnectAttempts < psMaxReconnectAttempts => s.sleeping < MaxSleeping

\* start() up to the await of connect().
PsStartCalled(throws) ==
  /\ IF isStreaming
       THEN psOut' = "already running" /\ PsBecomes(PsNow)
       ELSE IF throws
         THEN psOut' = "failed" /\ PsBecomes(PsNow)
         ELSE /\ PsFreeConns(PsNow) # {}
              /\ psStarting < MaxStarting
              /\ psOut' = "starting"
              /\ PsBecomes([PsConnect(PsNow) EXCEPT !.starting = @ + 1])
  /\ PsFrame

\* start() from the await of connect() to its end.
PsStartResumes ==
  /\ psStarting > 0
  /\ psPolls < MaxPolls
  /\ PsBecomes([PsStartWhaleAlerts(PsStartPriceUpdates(PsNow))
                  EXCEPT !.starting = @ - 1, !.isStreaming = TRUE])
  /\ psOut' = "started"
  /\ PsFrame

PsStopCalled ==
  /\ PsBecomes(PsStop(PsNow))
  /\ psOut' = "stopped"
  /\ PsFrame

\* The 'error' handler that connect() puts on a connection.
PsErrorEvent(id) ==
  /\ id \in PsOpenConns(PsNow)
  /\ PsMaySleep(PsNow)
  /\ PsBecomes(PsHandleReconnect(PsNow))
  /\ UNCHANGED psOut
  /\ PsFrame

\* A connection closes, and the 'close' handler that connect() put on it.
PsCloseEvent(id) ==
  /\ id \in PsOpenConns(PsNow)
  /\ LET closed == [PsNow EXCEPT !.conns =
                      IF id = wsProvider
                        THEN [psConns EXCEPT ![id].open = FALSE]
                        ELSE [i \in DOMAIN psConns \ {id} |-> psConns[i]]]
     IN  IF isStreaming
           THEN PsMaySleep(closed) /\ PsBecomes(PsHandleReconnect(closed))
           ELSE PsBecomes(closed)
  /\ UNCHANGED psOut
  /\ PsFrame

\* handleReconnect() from the end of its delay.
PsDelayEnds(throws) ==
  /\ psSleeping > 0
  /\ LET woken == [PsNow EXCEPT !.sleeping = @ - 1]
     IN  IF throws
           THEN PsMaySleep(woken) /\ PsBecomes(PsHandleReconnect(woken))
           ELSE /\ PsFreeConns(woken) # {}
                /\ PsBecomes(PsStartWhaleAlerts(PsConnect(woken)))
  /\ UNCHANGED psOut
  /\ PsFrame

PsNext ==
  \/ \E throws \in BOOLEAN : PsStartCalled(throws)
  \/ PsStartResumes
  \/ PsStopCalled
  \/ \E id \in 1..MaxPsConns : PsErrorEvent(id)
  \/ \E id \in 1..MaxPsConns : PsCloseEvent(id)
  \/ \E throws \in BOOLEAN : PsDelayEnds(throws)

(***************************************************************************)
(* Specifications, one per component.  The components a specification does *)
(* not exercise stay as they are constructed.                              *)
(***************************************************************************)
InitRetry == RetryInit /\ BreakerDefault /\ LimiterInit /\ CacheInit /\ WsInit /\ PsInit /\ OrderInit /\ ParallelInit /\ IntroInit /\ CallInit
InitBreaker == RetryInit /\ BreakerInit /\ LimiterInit /\ CacheInit /\ WsInit /\ PsInit /\ OrderInit /\ ParallelInit /\ IntroInit /\ CallInit
InitLimiter == RetryInit /\ BreakerDefault /\ LimiterInit /\ CacheInit /\ WsInit /\ PsInit /\ OrderInit /\ ParallelInit /\ IntroInit /\ CallInit
InitCache == RetryInit /\ BreakerDefault /\ LimiterInit /\ CacheInit /\ WsInit /\ PsInit /\ OrderInit /\ ParallelInit /\ IntroInit /\ CallInit
InitCached ==
  /\ RetryInit /\ BreakerDefault /\ CacheInit /\ WsInit /\ PsInit /\ OrderInit
  /\ ParallelInit /\ IntroInit /\ CallInit
  /\ CallConfigured
  /\ limits = <<>>
  /\ waiter = [c \in Callers |-> IdleCaller]
  /\ admitted = [n \in Names |-> 0]
SpecCached == InitCached /\ [][CachedNext]_vars
InitWs == RetryInit /\ BreakerDefault /\ LimiterInit /\ CacheInit /\ WsInit /\ PsInit /\ OrderInit /\ ParallelInit /\ IntroInit /\ CallInit

SpecRetry == InitRetry /\ [][RetryNext]_vars

SpecBreaker == InitBreaker /\ [][BreakerNext]_vars

SpecBreakerConcurrent == InitBreaker /\ [][ConcurrentNext]_vars

SpecLimiter == InitLimiter /\ [][LimiterNext]_vars

SpecLimiterFair == InitLimiter /\ [][LimiterOnceNext]_vars /\ LimiterFairness

SpecLimiterIntro == InitLimiter /\ [][IntroNext]_vars

SpecCache == InitCache /\ [][CacheNext]_vars

SpecWsLogs == InitWs /\ [][WsLogsNext]_vars

SpecWsBlocks == InitWs /\ [][WsBlocksNext]_vars

InitPriceStream ==
  RetryInit /\ BreakerDefault /\ LimiterInit /\ CacheInit /\ WsInit /\ PsInit /\ OrderInit /\ ParallelInit /\ IntroInit /\ CallInit

SpecPriceStream == InitPriceStream /\ [][PsNext]_vars

InitWsOrder ==
  RetryInit /\ BreakerDefault /\ LimiterInit /\ CacheInit /\ WsInit /\ PsInit /\ OrderInit /\ ParallelInit /\ IntroInit /\ CallInit

SpecWsOrder == InitWsOrder /\ [][WsOrderNext]_vars

InitParallel ==
  /\ RetryInit /\ BreakerDefault /\ LimiterInit /\ CacheInit /\ WsInit /\ PsInit
  /\ OrderInit /\ ParallelInit /\ IntroInit /\ CallInit

SpecParallel == InitParallel /\ [][ParallelNext]_vars

\* The three executors of ErrorHandler.  They share no state, so a behaviour
\* exercises one of them: the one its first step uses.
InitExecutors ==
  /\ RetryInit /\ BreakerCreated(2, 2) /\ LimiterInit /\ CacheInit /\ WsInit /\ PsInit
  /\ OrderInit /\ ParallelInit /\ IntroInit /\ CallInit

RetryUnused == rtPc = "idle"
BreakerUnused == cbLast = "none" /\ cbInFlight = 0
ParallelUnused == parPc = "idle"

ExecutorsNext ==
  \/ BreakerUnused /\ ParallelUnused /\ RetryNext
  \/ RetryUnused /\ ParallelUnused /\ BreakerNext
  \/ RetryUnused /\ BreakerUnused /\ ParallelNext

SpecExecutors == InitExecutors /\ [][ExecutorsNext]_vars

\* The event loop runs the continuation of a call whose await has resolved;
\* nothing makes an operation settle.
SpecParallelFair ==
  InitParallel /\ [][ParallelNext]_vars /\ WF_vars(ParallelSettled)

\* withRetry around a guard made by createCircuitBreaker(2, 2).
InitGuarded ==
  /\ RetryInit /\ BreakerCreated(2, 2) /\ LimiterInit /\ CacheInit /\ WsInit /\ PsInit
  /\ OrderInit /\ ParallelInit /\ IntroInit /\ CallInit

SpecGuarded == InitGuarded /\ [][GuardedNext]_vars

(***************************************************************************)
(* Properties of withRetry.                                                *)
(***************************************************************************)
\* Every value the operation threw so far is a classified error whose retryable
\* flag is set and whose code is in the policy's retryable set.
AlwaysFailedRetryable ==
  \A i \in 1..Len(history) :
    /\ InstanceOfChilizMCPError(history[i])
    /\ history[i].isRetryable
    /\ history[i].code \in retryConfig.retryableErrors

\* C1: with maxRetries = N, a call whose operation fails every time with a
\* retryable error invokes the operation exactly N + 1 times: it never invokes it
\* more often, it does not propagate before the (N + 1)-th failure, and what it
\* then propagates is the error of that last failure.
C1_RetryableFailsNPlusOneTimes ==
  AlwaysFailedRetryable =>
    /\ attempts <= retryConfig.maxRetries + 1
    /\ rtPc = "thrown" =>
         /\ attempts = retryConfig.maxRetries + 1
         /\ Len(history) = attempts
         /\ rtThrown = history[Len(history)]

C1_Witness ==
  /\ AlwaysFailedRetryable
  /\ rtPc = "thrown"
  /\ retryConfig.maxRetries = 2
  /\ attempts = 3

\* C2: a call whose operation fails with a classified error that is flagged not
\* retryable has invoked the operation once, has not slept, and has propagated
\* that error, whatever maxRetries is.
C2_NonRetryableOnce ==
  (Len(history) >= 1 /\ InstanceOfChilizMCPError(history[1]) /\ ~history[1].isRetryable) =>
    /\ rtPc = "thrown"
    /\ attempts = 1
    /\ sleeps = 0
    /\ rtThrown = history[1]

C2_Witness ==
  /\ Len(history) = 1
  /\ history[1].code = "RPC_ERROR"
  /\ ~history[1].isRetryable
  /\ retryConfig.maxRetries = 3
  /\ rtPc = "thrown"
  /\ attempts = 1

(***************************************************************************)
(* Properties of the circuit breaker, for callers that await each call.    *)
(***************************************************************************)
\* The guarded call of this step threw the breaker-open error and did not invoke
\* the operation.
FailsFast == cbInFlight' = cbInFlight /\ cbThrown' = CircuitBreakerOpenError /\ cbLast' = "blocked"

\* The guarded call of this step invoked the operation.
Invokes == cbInFlight' = cbInFlight + 1

\* lastFailureTime is the instant of the last failure: less than resetTimeoutMs ago.
WithinResetTimeout == DateNow - lastFailureTime < resetTimeoutMs

C4_SuccessResetsCount ==
  [][ /\ (GuardOperationResolves /\ ~isOpen) => (failures' = 0 /\ ~isOpen')
      /\ (~isOpen /\ isOpen') => (cbLast' = "failed" /\ cbRun' >= maxFailures)
      /\ (GuardOperationResolves /\ cbRun < maxFailures) => (failures' = 0 /\ ~isOpen') ]_vars

C4_Witness ==
  /\ maxFailures = 3
  /\ cbLast = "succeeded"
  /\ cbPrev = "failed"
  /\ failures = 0
  /\ ~isOpen

\* The last guarded call to finish was the attempt made after an elapsed cooldown,
\* and it failed.
AttemptAfterCooldownFailed == cbLast = "failed" /\ cbViaReset /\ cbInFlight = 0

ChecksLimit(c, name) ==
  \/ CheckLimitCall(c, name)
  \/ WaitForLimit(c, name)
  \/ waiter[c].name = name /\ WaitWake(c)
  \/ waiter[c].name = name /\ ~waiter[c].result /\ ~Sleeps(name) /\ WaitResume(c)

\* The answer that check gave to c.
Answer(c) == waiter'[c].result

C7_RotationAdmitsOne ==
  [][\A c \in Callers, n \in Names :
       (/\ n \in DOMAIN configs
        /\ n \in DOMAIN limits
        /\ DateNow > limits[n].resetTime
        /\ ChecksLimit(c, n)) =>
         /\ Answer(c)
         /\ getRemainingRequests(n)' = configs[n].maxRequests - 1
         /\ limits'[n].resetTime = DateNow + configs[n].windowMs]_vars

\* One caller was refused in a full window of the bucket; the other has just
\* opened the bucket's next window.
C7_Witness ==
  \E c \in Callers, d \in Callers, n \in DOMAIN configs :
    /\ configs[n].maxRequests = MaxRequestsBound
    /\ waiter[d].pc = "answered" /\ waiter[d].name = n /\ ~waiter[d].result
    /\ waiter[c].pc = "answered" /\ waiter[c].name = n /\ waiter[c].result
    /\ n \in DOMAIN limits
    /\ limits[n].resetTime = DateNow + configs[n].windowMs
    /\ getRemainingRequests(n) = MaxRequestsBound - 1

Returns(c) == waiter[c].pc # "returned" /\ waiter'[c].pc = "returned"

Waiting(c) == waiter[c].pc \in {"checked", "sleeping"}

\* C9: a waitForLimit returns only after a checkLimit of its own was answered
\* true; every waiter returns in the end; and a waiter's steps touch no bucket
\* but its own, so that a call on another bucket is answered as if nobody
\* waited.
C9_WaitersReturnAfterOwnAdmission ==
  /\ [][\A c \in Callers : Returns(c) =>
          waiter[c].pc = "checked" /\ waiter[c].result /\ limits' = limits]_vars
  /\ [][\A c \in Callers, n \in Names :
          (n # waiter[c].name /\ (WaitResume(c) \/ WaitWake(c))) =>
            /\ (n \in DOMAIN limits') = (n \in DOMAIN limits)
            /\ n \in DOMAIN limits => limits'[n] = limits[n]
            /\ admitted'[n] = admitted[n]]_vars
  /\ \A c \in Callers : Waiting(c) ~> (waiter[c].pc = "returned")

C9_Witness ==
  \E c \in Callers :
    /\ waiter[c].pc = "returned"
    /\ waiter[c].slept
    /\ waiter[c].name \in DOMAIN configs

\* C10: a name that has no policy is always answered true, at once for a
\* waitForLimit as well, and no entry is ever made for it.
C10_UnconfiguredUnlimited ==
  /\ [](\A n \in Names : n \notin DOMAIN configs => n \notin DOMAIN limits)
  /\ [](\A c \in Callers :
          (waiter[c].name \notin DOMAIN configs /\ waiter[c].pc # "idle") =>
            waiter[c].result /\ waiter[c].pc # "sleeping")
  /\ [][\A c \in Callers, n \in Names :
          (n \notin DOMAIN configs /\ ChecksLimit(c, n)) =>
            Answer(c) /\ limits' = limits]_vars

C10_Witness ==
  \E c \in Callers, n \in Names :
    /\ n \notin DOMAIN configs
    /\ waiter[c].pc = "returned" /\ waiter[c].name = n
    /\ \E d \in Callers : waiter[d].pc = "answered" /\ ~waiter[d].result

(***************************************************************************)
(* Properties of the CacheManager.                                         *)
(***************************************************************************)

\* C11: a get on a registered cache misses when the key's expiry time has
\* passed, whether the key is still stored (no sweep yet) or was swept away,
\* and returns the stored value, leaving the caches as they were, when the
\* key's expiry time has not passed.
C11_LazyExpiryAuthoritative ==
  [][\A n \in CacheNames : \A k \in KeysFor(n) :
       CacheGet(n, k) =>
         /\ k \notin DOMAIN caches[n] => cacheOut'.value = "undefined"
         /\ (k \in DOMAIN caches[n] /\ ~caches[n][k].unlimited) =>
              IF caches[n][k].t < DateNow
                THEN cacheOut'.value = "undefined"
                ELSE cacheOut'.value = caches[n][k].v /\ caches' = caches]_vars

\* A get has just missed on a key that was still stored, its time run out,
\* while a key with time left is stored next to it.
C11_Witness ==
  /\ cacheOut.op = "get" /\ cacheOut.stale /\ cacheOut.value = "undefined"
  /\ \E k \in DOMAIN caches["prices"] :
       ~caches["prices"][k].unlimited /\ caches["prices"][k].t >= DateNow

\* C12 as stated: an entry set without a ttl misses once more than the cache's
\* stdTTL has passed since the set, and an entry set with a ttl expires that
\* ttl after the set.
C12_AsStated ==
  /\ [][\A n \in CacheNames : \A k \in KeysFor(n) :
          (/\ k \in DOMAIN caches[n]
           /\ caches[n][k].defaulted
           /\ caches[n][k].due < DateNow
           /\ CacheGet(n, k)) => cacheOut'.value = "undefined"]_vars
  /\ [][\A n \in CacheNames : \A k \in KeysFor(n), v \in Values, t \in 1..MaxTtl :
          CacheSet(n, k, v, <<t>>) =>
            ~caches'[n][k].unlimited /\ caches'[n][k].t = DateNow + t]_vars

\* A get has just returned a value from a cache in which an entry set without
\* a ttl is older than the cache's stdTTL.
C12_Witness ==
  /\ cacheOut.op = "get" /\ cacheOut.value \in Values
  /\ \E k \in DOMAIN caches["balances"] :
       caches["balances"][k].defaulted /\ caches["balances"][k].due < DateNow
  /\ caches["prices"] = <<>>

\* The calls that name a cache, made with the name n.
NamesCache(n) ==
  \/ \E k \in KeysFor(n) : CacheGet(n, k) \/ CacheDel(n, k)
  \/ \E k \in KeysFor(n), v \in Values, ttl \in TtlArgs : CacheSet(n, k, v, ttl)
  \/ CacheFlush(n)
  \/ CacheGetStats(n)

\* C13: get, set, del, flush and getStats on a name that was never registered
\* throw the cache-not-found error and leave every registered cache as it was;
\* no cache comes to exist under such a name.
C13_UnknownCacheFailsLoudly ==
  /\ [](DOMAIN caches = CacheNames)
  /\ [][\A n \in AnyCacheName \ CacheNames :
          NamesCache(n) => cacheOut'.threw /\ caches' = caches]_vars
  /\ [][\A n \in CacheNames : NamesCache(n) => ~cacheOut'.threw]_vars

C13_Witness ==
  /\ cacheOut = CacheNotFound("flush")
  /\ \A n \in CacheNames : caches[n] # <<>>

(***************************************************************************)
(* Properties of the WebSocketProvider.                                    *)
(***************************************************************************)

\* The listeners that logListeners holds for a filter.
ListenersOf(filter) ==
  IF filter \in DOMAIN logListeners THEN logListeners[filter] ELSE {}

\* The handlers registered for an event on the connection of this.provider.
Registered(event) == IF provider = 0 THEN 0 ELSE conns[provider].regs[event]

\* C14: on a connection that stays up, the first subscriber of a filter
\* registers one handler upstream and a second subscriber of the same filter
\* registers none, so that a connection never has two handlers for a filter;
\* removing one of two listeners leaves the handler and the other listener,
\* removing the last one removes the handler and the filter's entry; and a log
\* of the filter reaches exactly the listeners held for it, once each.
C14_SharedLogRegistration ==
  /\ [](\A id \in DOMAIN conns : \A f \in Filters : conns[id].regs[f] <= 1)
  /\ [][\A f \in Filters, l \in Listeners, throws \in BOOLEAN :
          (SubscribeToLogs(f, l, throws) /\ provider' # 0) =>
            /\ ListenersOf(f)' = ListenersOf(f) \cup {l}
            /\ f \notin DOMAIN logListeners => Registered(f)' = 1
            /\ (provider # 0 /\ Registered(f) = 1) => Registered(f)' = 1]_vars
  /\ [][\A f \in Filters, l \in Listeners :
          (UnsubscribeFromLogs(f, l) /\ provider # 0 /\ Registered(f) = 1) =>
            IF ListenersOf(f) \ {l} = {}
              THEN Registered(f)' = 0 /\ f \notin DOMAIN logListeners'
              ELSE Registered(f)' = 1 /\ ListenersOf(f)' = ListenersOf(f) \ {l}]_vars
  /\ [][\A id \in 1..MaxConns, f \in Filters :
          UpstreamLog(id, f) =>
            \A l \in Listeners :
              wsDelivered'.count[l] = IF l \in ListenersOf(f) THEN 1 ELSE 0]_vars

\* Two listeners share the one handler of a filter and a log has just reached
\* each of them once.
C14_Witness ==
  /\ provider # 0
  /\ ListenersOf("f1") = {"A", "B"}
  /\ Registered("f1") = 1
  /\ wsDelivered = [event |-> "f1", count |-> [l \in Listeners |-> 1]]

\* C15 as stated: while there is a current connection, a filter has a handler
\* on it exactly when the filter has listeners, and logListeners holds no
\* entry without listeners.
C15_AsStated ==
  /\ provider # 0 =>
       \A f \in Filters : (Registered(f) >= 1) <=> (ListenersOf(f) # {})
  /\ \A f \in DOMAIN logListeners : logListeners[f] # {}

\* A listener is held for a filter that has no handler on the established
\* current connection.
C15_Witness ==
  /\ provider # 0 /\ Live(provider)
  /\ ListenersOf("f1") = {"A"}
  /\ Registered("f1") = 0

\* C17 as stated: on a connection made by a reconnect, every filter that has a
\* listener has a handler.
C17_AsStated ==
  (wsReconnected /\ provider # 0) =>
    \A f \in Filters : ListenersOf(f) # {} => Registered(f) >= 1

\* A log of a filter with a listener arrives on no handler: the reconnected
\* connection is established and has none.
C17_Witness ==
  /\ wsReconnected /\ provider # 0 /\ Live(provider)
  /\ ListenersOf("f2") = {"A", "B"}
  /\ \A f \in Filters : Registered(f) = 0

\* The connections that are open: made and not destroyed, their close not yet
\* reported.
OpenConns == {id \in DOMAIN conns : conns[id].open}

\* C18 as stated: once more than maxReconnectAttempts connection attempts in a
\* row have failed, no connection is being made and no reconnect is pending.
C18_AsStated ==
  wsFailedRun > maxReconnectAttempts => OpenConns = {} /\ wsTimers = 0

C18_Witness ==
  /\ wsFailedRun > maxReconnectAttempts
  /\ wsTimers > 0
  /\ reconnectAttempts = 1

\* C19 as stated: from the return of disconnect() until a caller connects or
\* subscribes again, no listener is held and no connection is open.
C19_AsStated ==
  wsStopped =>
    /\ provider = 0
    /\ logListeners = <<>> /\ blockListeners = {} /\ pendingTxListeners = {}
    /\ OpenConns = {}

\* After disconnect() a reconnect has opened a connection.
C19_Witness ==
  /\ wsStopped
  /\ wsReconnected
  /\ provider \in OpenConns
  /\ logListeners = <<>>

\* C16 as stated: a connection never has more than one handler for new blocks
\* or for pending transactions, and an upstream event reaches a listener at
\* most once.
C16_AsStated ==
  /\ \A id \in DOMAIN conns :
       conns[id].regs["block"] <= 1 /\ conns[id].regs["pending"] <= 1
  /\ \A l \in Listeners : wsDelivered.count[l] <= 1

\* One listener, two handlers for new blocks, and a block delivered twice.
C16_Witness ==
  /\ blockListeners = {"A"}
  /\ Registered("block") = 2
  /\ wsDelivered = [event |-> "block",
                    count |-> [l \in Listeners |-> IF l = "A" THEN 2 ELSE 0]]

\* C20 as stated: at most one connection of the price stream is open at any
\* moment.
C20_AsStated == Cardinality(PsOpenConns(PsNow)) <= 1

\* The running stream has two open connections and no call of stop() was
\* made: this.wsProvider is one, the other is the one it replaced.
C20_Witness ==
  /\ isStreaming /\ psOut = "started"
  /\ Cardinality(PsOpenConns(PsNow)) = 2
  /\ wsProvider \in PsOpenConns(PsNow)

(***************************************************************************)
(* Properties of the event handlers of the WebSocketProvider.              *)
(***************************************************************************)

\* C21 as stated: the fan-outs of one subscription are made in the order in
\* which its events arrived.
C21_AsStated ==
  \A i, j \in DOMAIN deliveries :
    (i < j /\ deliveries[i].event = deliveries[j].event) =>
      deliveries[i].n <= deliveries[j].n

\* The second block to arrive was looked up first: listener A was given it
\* before the first block.
C21_Witness ==
  /\ Len(deliveries) = 2
  /\ deliveries[1].event = "block" /\ deliveries[1].n = 2 /\ "A" \in deliveries[1].called
  /\ deliveries[2].event = "block" /\ deliveries[2].n = 1 /\ "A" \in deliveries[2].called

\* C22: every fan-out calls every listener held for the subscription at that
\* moment, whichever of them throw, and a fan-out changes no listener set, so
\* that the next event is given to the listener that threw as well.
C22_ThrowingListenerIsolated ==
  /\ [](\A i \in DOMAIN deliveries : deliveries[i].called = deliveries[i].held)
  /\ [][deliveries' # deliveries =>
          UNCHANGED <<blockListeners, logListeners, pendingTxListeners>>]_vars

\* Listener A threw on the first log of f1, B was given it all the same, and
\* the second log of f1 was given to both.
C22_Witness ==
  /\ Len(deliveries) = 2
  /\ deliveries[1].event = "f1" /\ deliveries[1].threw = {"A"}
  /\ deliveries[1].called = {"A", "B"}
  /\ deliveries[2].event = "f1" /\ deliveries[2].called = {"A", "B"}

(***************************************************************************)
(* Properties of the errors that leave ErrorHandler.                       *)
(***************************************************************************)

MessageOf(error) == error.message

\* C24 as stated: what withRetry throws is its last error wrapped, wrapping it
\* again changes nothing, a classified last error is thrown as it is, and any
\* other last error is thrown with code UNKNOWN_ERROR, not retryable, and with
\* the message it carried.
C24_AsStated ==
  rtPc = "thrown" =>
    /\ rtThrown = wrapError(lastError, Context)
    /\ wrapError(rtThrown, Context) = rtThrown
    /\ InstanceOfChilizMCPError(lastError) => rtThrown = lastError
    /\ ~InstanceOfChilizMCPError(lastError) =>
         /\ rtThrown.code = "UNKNOWN_ERROR"
         /\ ~rtThrown.isRetryable
         /\ rtThrown.message = MessageOf(lastError)

\* The operation threw an object with a message; what withRetry threw has the
\* message "[object Object]".
C24_Witness ==
  /\ rtPc = "thrown"
  /\ lastError = ThrownObject(<<"RPC", "request", "failed">>)
  /\ rtThrown.code = "UNKNOWN_ERROR"
  /\ rtThrown.message = <<"[object", "Object]">>

(***************************************************************************)
(* Properties of withParallel.                                             *)
(***************************************************************************)
\* The values of the fulfilled promises, in input order.
FulfilledValues ==
  LET fulfilled == SelectSeq(parResults, LAMBDA r : r.status = "fulfilled")
  IN  [i \in 1..Len(fulfilled) |-> fulfilled[i].value]

RejectedAt == {i \in DOMAIN parResults : parResults[i].status = "rejected"}

C26_AsStated ==
  /\ [](parPc = "thrown" =>
          /\ parFailFast /\ RejectedAt # {} /\ parValues = <<>>
          /\ \E i \in RejectedAt :
               /\ \A k \in RejectedAt : i <= k
               /\ parThrown = wrapError(parResults[i].reason, Context))
  /\ []((parPc = "returned" /\ parFailFast) =>
          RejectedAt = {} /\ parValues = FulfilledValues)
  /\ (parPc = "awaiting" /\ parFailFast /\ RejectedAt # {}) ~> (parPc = "thrown")

\* A fail-fast call is still awaiting: its first operation has rejected, its
\* second has not settled.
C26_Witness ==
  /\ parPc = "awaiting" /\ parFailFast
  /\ Len(parResults) = 2
  /\ parResults[1].status = "rejected"
  /\ parResults[2].status = "pending"

(***************************************************************************)
(* Properties of the delay and of the retry decision of withRetry.         *)
(***************************************************************************)
\* The error carries a retry-after hint.
Hinted(error) == error.cls = "RateLimitError" /\ error.retryAfter # <<>>

\* min(baseDelay * multiplier^(k-1), maxDelay)
Unjittered(k, config) ==
  Min(config.baseDelayMs * Pow(config.backoffMultiplier, k - 1), config.maxDelayMs)

\* C27: when the k-th failure, one without a hint, leads to a sleep, the delay
\* is at least min(baseDelay * multiplier^(k-1), maxDelay) and at most
\* maxDelay, it is that minimum when the jitter is zero, and the minimum does
\* not decrease from k - 1 to k.
C27_BackoffDelay ==
  [][\A error \in RawErrors, r \in 0..(JitterSteps - 1) :
       (rtPc = "operation" /\ ~Hinted(error) /\ OperationRejects(error, r)
          /\ rtPc' = "sleeping") =>
         /\ delay' >= Unjittered(attempt', retryConfig)
         /\ delay' <= retryConfig.maxDelayMs
         /\ r = 0 => delay' = Unjittered(attempt', retryConfig)
         /\ attempt' > 1 =>
              Unjittered(attempt' - 1, retryConfig) <= Unjittered(attempt', retryConfig)]_vars

\* The second failure with baseDelayMs 10 and maxDelayMs 15: the delay is the
\* cap, not 20.
C27_Witness ==
  /\ rtPc = "sleeping"
  /\ attempt = 2
  /\ retryConfig.baseDelayMs = 10 /\ retryConfig.maxDelayMs = 15
  /\ ~Hinted(lastError)
  /\ delay = 15

\* C28 as stated: when a failure with a retry-after hint of h seconds leads to
\* a sleep, the delay is h * 1000.
C28_AsStated ==
  [][\A error \in RawErrors, r \in 0..(JitterSteps - 1) :
       (rtPc = "operation" /\ Hinted(error) /\ OperationRejects(error, r)
          /\ rtPc' = "sleeping") =>
         delay' = error.retryAfter[1] * 1000]_vars

\* A rate-limit error with a hint of 0 seconds is followed by a sleep of the
\* backoff delay.
C28_Witness ==
  /\ rtPc = "sleeping"
  /\ attempt = 1
  /\ lastError.cls = "RateLimitError" /\ lastError.retryAfter = <<0>>
  /\ retryConfig.baseDelayMs = 1000
  /\ delay >= 1000

\* C29 as stated: under the default policy a call whose operation failed with
\* a native error has invoked it once and has thrown an UNKNOWN_ERROR that is
\* not retryable; and an error thrown after more than one attempt is flagged
\* retryable.
C29_AsStated ==
  /\ (Len(history) >= 1 /\ history[1].cls = "Error"
        /\ retryConfig = DEFAULT_RETRY_CONFIG) =>
       /\ rtPc = "thrown"
       /\ attempts = 1
       /\ rtThrown.code = "UNKNOWN_ERROR" /\ ~rtThrown.isRetryable
  /\ (rtPc = "thrown" /\ attempts > 1) => rtThrown.isRetryable

\* Under the default policy the operation was invoked four times, failed each
\* time with the native error "Network timeout", and the call threw an
\* UNKNOWN_ERROR that is not retryable.
C29_Witness ==
  /\ retryConfig = DEFAULT_RETRY_CONFIG
  /\ rtPc = "thrown"
  /\ attempts = 4
  /\ \A i \in DOMAIN history : history[i] = NativeError(<<"Network", "timeout">>)
  /\ rtThrown.code = "UNKNOWN_ERROR" /\ ~rtThrown.isRetryable

\* C30: a call whose operation failed with a classified error whose code is
\* not in the retryableErrors of the call has invoked it once, has not slept
\* and has thrown that error; the retryableErrors of a call are those of its
\* overrides, or else those of DEFAULT_RETRY_CONFIG, whatever earlier calls
\* were given; and the static default is never written.
C30_AbsentKindNotRetried ==
  /\ [](defaultRetryConfig = DEFAULT_RETRY_CONFIG)
  /\ []((Len(history) >= 1 /\ InstanceOfChilizMCPError(history[1])
          /\ history[1].code \notin retryConfig.retryableErrors) =>
         /\ rtPc = "thrown"
         /\ attempts = 1
         /\ sleeps = 0
         /\ rtThrown = history[1])
  /\ [][\A config \in ConfigOverrides :
          WithRetry(config) =>
            retryConfig'.retryableErrors =
              IF "retryableErrors" \in DOMAIN config
                THEN config.retryableErrors
                ELSE DEFAULT_RETRY_CONFIG.retryableErrors]_vars

\* Under the default policy a WebSocketError, flagged retryable, was thrown
\* after one attempt.
C30_Witness ==
  /\ retryConfig.retryableErrors = DEFAULT_RETRY_CONFIG.retryableErrors
  /\ retryConfig.maxRetries = 3
  /\ rtPc = "thrown"
  /\ attempts = 1
  /\ rtThrown.cls = "WebSocketError" /\ rtThrown.isRetryable

(***************************************************************************)
(* Properties of a guard called inside withRetry.                          *)
(***************************************************************************)

\* C31 as stated: under the default policy a withRetry call that has thrown
\* the breaker-open error has made every attempt the policy allows.
C31_AsStated ==
  (rtPc = "thrown" /\ retryConfig = DEFAULT_RETRY_CONFIG
     /\ rtThrown = CircuitBreakerOpenError) =>
    /\ attempts = retryConfig.maxRetries + 1
    /\ sleeps = retryConfig.maxRetries

\* Under the default policy the guard was open at the first attempt: the call
\* threw the breaker-open error after that attempt, without a sleep.
C31_Witness ==
  /\ rtPc = "thrown" /\ retryConfig = DEFAULT_RETRY_CONFIG
  /\ cbLast = "blocked"
  /\ rtThrown = CircuitBreakerOpenError /\ rtThrown.isRetryable
  /\ attempts = 1 /\ sleeps = 0

(***************************************************************************)
(* Properties of the attempts and the sleeps of one withRetry call.        *)
(***************************************************************************)

\* C32: a call that is at an attempt or has ended has slept once less than
\* it has invoked the operation, a call that sleeps has slept as often as it
\* has invoked it; a call that returned returned a value the operation
\* resolved with, every earlier attempt having failed; and after the return
\* nothing happens to the call: the next step is a new call.
C32_ReturnsFirstSuccess ==
  /\ []((rtPc \in {"operation", "returned", "thrown"}) => sleeps = attempts - 1)
  /\ [](rtPc = "sleeping" => sleeps = attempts)
  /\ [](rtPc = "returned" =>
          /\ rtReturned \in Results
          /\ rtThrown = NoError
          /\ Len(history) = attempts - 1)
  /\ [][rtPc = "returned" => \E config \in ConfigOverrides : WithRetry(config)]_vars

\* The operation failed twice and then resolved with "result1": three
\* attempts, two sleeps.
C32_Witness ==
  /\ rtPc = "returned"
  /\ rtReturned = "result1"
  /\ attempts = 3 /\ sleeps = 2
  /\ Len(history) = 2

(***************************************************************************)
(* Properties of the windows, the introspection calls and configure of     *)
(* the RateLimiter.  Timestamps are measured from the present instant: the *)
(* passing of a time unit lowers every resetTime by one, which leaves the  *)
(* instant it stands for where it was.                                     *)
(***************************************************************************)

C35_ConfigureReplaces ==
  /\ [][\A n \in Names, config \in Policies :
          Reconfigure(n, config) =>
            /\ configs'[n] = config
            /\ limits' = limits
            /\ MapSet(configs', n, config) = configs'
            /\ (n \in DOMAIN configs /\ configs[n] = config) =>
                 /\ configs' = configs
                 /\ getRemainingRequests(n)' = getRemainingRequests(n)]_vars
  /\ [][\A c \in Callers, n \in Names :
          (n \in DOMAIN configs /\ ~WindowExpired(n) /\ ChecksLimit(c, n)) =>
            Answer(c) = (limits[n].count < configs[n].maxRequests)]_vars

\* "rpc" was configured with maxRequests 2 and, after two admissions, with
\* maxRequests 1: the count is still 2 and the check of c1 was refused.
C35_Witness ==
  /\ "rpc" \in DOMAIN limits
  /\ ~WindowExpired("rpc")
  /\ limits["rpc"].count = 2
  /\ configs["rpc"].maxRequests = 1
  /\ waiter["c1"].pc = "answered" /\ waiter["c1"].name = "rpc" /\ ~waiter["c1"].result

(***************************************************************************)
(* Properties of a cached upstream call.                                   *)
(***************************************************************************)

\* The step in which caller c starts a call of method m.
Starts(c, m) == CachedCall(c, m)

\* C36: a call that finds a value in the cache returns that value in the
\* same step, with the rate limiter untouched and no upstream request issued;
\* a call issues its first upstream request only when its waitForLimit has
\* returned after a checkLimit of its bucket answered true; a value enters
\* the cache only in the step in which the last upstream request of a call
\* resolves, and it is the value that call returns; a call that throws, or
\* returns null, leaves the cache as it was.
C36_CacheThenLimitThenStore ==
  /\ [][\A c \in Callers, m \in Methods :
          (Starts(c, m) /\ GetValue(CacheOf(m), KeyOf(m)) # "undefined") =>
            /\ call'[c].pc = "returned"
            /\ call'[c].value = GetValue(CacheOf(m), KeyOf(m))
            /\ UNCHANGED limiterVars]_vars
  /\ [][\A c \in Callers, m \in Methods :
          (Starts(c, m) /\ GetValue(CacheOf(m), KeyOf(m)) = "undefined") =>
            /\ call'[c].pc = "waiting"
            /\ waiter'[c].pc = "checked"
            /\ waiter'[c].name = BucketOf(m)]_vars
  /\ [](\A c \in Callers :
          call[c].sent > 0 =>
            /\ waiter[c].pc = "returned"
            /\ waiter[c].result
            /\ waiter[c].name = BucketOf(call[c].method)
            /\ BucketOf(call[c].method) \in DOMAIN limits)
  /\ [][\A n \in CacheNames : \A k \in DOMAIN caches'[n] :
          (\/ k \notin DOMAIN caches[n]
           \/ caches'[n][k].v # caches[n][k].v
           \/ caches'[n][k].due > caches[n][k].due) =>
            \E c \in Callers :
              /\ call[c].pc = "request2"
              /\ call'[c].pc = "returned"
              /\ n = CacheOf(call[c].method) /\ k = KeyOf(call[c].method)
              /\ caches'[n][k].v = call'[c].value]_vars
  /\ [][\A c \in Callers :
          (call[c].pc \in {"request1", "request2"} /\
           (call'[c].pc = "threw" \/ call'[c].value = "null")) =>
            UNCHANGED caches]_vars

\* Caller c1 has fetched and stored a price with two upstream requests, after
\* its check of "coingecko" was answered true; caller c2 has then returned
\* that price from the cache, without a request and without having gone
\* through the limiter, whose window is full.
C36_Witness ==
  /\ call["c1"] = [pc |-> "returned", method |-> "getPrice", value |-> "v2", sent |-> 2]
  /\ waiter["c1"].pc = "returned" /\ waiter["c1"].result
  /\ call["c2"] = [pc |-> "returned", method |-> "getPrice", value |-> "v2", sent |-> 0]
  /\ waiter["c2"].pc = "idle"
  /\ "price_chz" \in DOMAIN caches["prices"]
  /\ caches["prices"]["price_chz"].v = "v2"
  /\ limits["coingecko"].count = 1
  /\ ~WindowExpired("coingecko")
  /\ cacheOut.op = "get"

(***************************************************************************)
(* The delays of the reconnect attempts.                                   *)
(***************************************************************************)

\* No ceiling: a delay that no reconnect reaches.
NoCeiling == Infinity

\* The delays recorded per attempt number follow min(base * 2^a, ceiling) for
\* some ceiling: one of the delays themselves, or none that was reached.
DelaysDouble(delays, base) ==
  \E ceiling \in {delays[a] : a \in DOMAIN delays} \cup {NoCeiling} :
    \A a \in DOMAIN delays : delays[a] = Min(base * Pow(2, a), ceiling)

\* The delays of PriceStream.handleReconnect are min(1000 * 2^a, 30000).
PsDelaysDouble ==
  \A a \in DOMAIN psDelays : psDelays[a] = Min(1000 * Pow(2, a), 30000)

\* C37: in the price stream and in the WebSocket provider alike, the delay
\* before reconnect attempt number a is min(base * 2^a, ceiling), with the
\* component's base delay and some ceiling: it doubles from one consecutive
\* attempt to the next until it stays at the ceiling.
C37_AsStated ==
  /\ DelaysDouble(psDelays, 1000)
  /\ DelaysDouble(wsDelays, reconnectDelay)

\* The WebSocket provider has set the timers of its first and of its second
\* consecutive reconnect attempt, with 5000 ms and 10000 ms: reconnectDelay
\* times 1 and times 2, where the doubling gives times 2 and times 4.
C37_Witness ==
  /\ reconnectAttempts = 2
  /\ wsTimers = 2
  /\ wsDelays = <<5000, 10000>>
  /\ wsDelays[1] # Min(reconnectDelay * Pow(2, 1), NoCeiling)
  /\ wsDelays[2] # Min(reconnectDelay * Pow(2, 2), NoCeiling)

(***************************************************************************)
(* One circuit breaker with several calls in flight.                       *)
(***************************************************************************)

\* C38: with several calls of one guard in flight, an open circuit has a
\* failure count of at least maxFailures in every reachable state.
C38_AsStated == isOpen => failures >= maxFailures

\* Two calls were in flight; the failure of one opened the circuit, and the
\* success of the other has then set the count to 0: the circuit is open
\* with no failure counted.
C38_Witness ==
  /\ isOpen
  /\ failures = 0
  /\ maxFailures >= 1
  /\ cbLast = "succeeded"
  /\ cbPrev = "failed"
  /\ cbInFlight = 0

(***************************************************************************)
(* The price stream under start(), stop() and reconnects.                  *)
(***************************************************************************)

\* The sets of transfer/swap registrations on the open connections.
PsRegistrations ==
  LET open == PsOpenConns(PsNow)
      RECURSIVE Sum(_)
      Sum(ids) == IF ids = {} THEN 0
                  ELSE LET id == CHOOSE i \in ids : TRUE
                       IN  psConns[id].regs + Sum(ids \ {id})
  IN  Sum(open)

\* C39: when the last call of start() or stop() to end was a stop(), and no
\* start() is under way, there is no open connection and no price-polling
\* timer.
C39_AsStated ==
  (psOut = "stopped" /\ psStarting = 0) =>
    /\ PsOpenConns(PsNow) = {}
    /\ psPolls = 0

\* stop() was called while a handleReconnect waited out its delay; the delay
\* is over and handleReconnect has connected again and registered on the new
\* connection, with the stream stopped and no start() since.
C39_Witness ==
  /\ psOut = "stopped"
  /\ ~isStreaming
  /\ psStarting = 0
  /\ psSleeping = 0
  /\ psPolls = 0
  /\ psDelays = <<2000>>
  /\ wsProvider # 0
  /\ PsOpenConns(PsNow) = {wsProvider}
  /\ psConns[wsProvider].regs = 1

\* C40: whatever the order of the start() and stop() calls and of their
\* resumptions, at most one price-polling timer and at most one set of
\* upstream registrations exist.
C40_AsStated ==
  /\ psPolls <= 1
  /\ PsRegistrations <= 1

\* Two start() calls were made before the first had resumed: both have
\* resumed, no connection ever failed, and there are two polling timers and
\* two sets of registrations on the connection of the second call.
C40_Witness ==
  /\ isStreaming
  /\ psOut = "started"
  /\ psStarting = 0
  /\ psDelays = <<>>
  /\ psPolls = 2
  /\ wsProvider # 0
  /\ psConns[wsProvider].regs = 2

=============================================================================
